---- MODULE Spec2Model ----
(***************************************************************************)
(* A model of kirjava's bytecode analysis core: the class-file constant    *)
(* pool, the control flow graph, the disassembler, the trace and the       *)
(* assembler's block layout.                                               *)
(*                                                                         *)
(* Each component has its own specifications (SpecPool, SpecPoolSet,       *)
(* SpecRead, SpecRoundTrip, SpecGraph, SpecEdit, SpecDisasm, SpecTrace,    *)
(* SpecTraceLive, SpecTraceLoops, SpecFrame, SpecLocals, SpecAssemble,     *)
(* SpecAssembleCatch, SpecAssembleWide, SpecAssembleAgain,                 *)
(* SpecAssembleInline, SpecSwitch); the variables of the components a      *)
(* specification does not exercise stay at their idle values.              *)
(***************************************************************************)
EXTENDS Integers, Sequences, FiniteSets, TLC

VARIABLES
    \* ---- ConstantPool (classfile/constants) ----
    pool_index,        \* ConstantPool._index
    forward_entries,   \* ConstantPool._forward_entries : index -> constant
    backward_entries,  \* ConstantPool._backward_entries : constant -> index
    pool_last,         \* the last pool call: its argument and what it returned
    pool_added,        \* history: <<constant, index>> for every add() that returned
                       \* since the pool was last cleared or assigned to
    \* ---- Graph (abc/graph, analysis/graph) ----
    build,             \* how the build treats an attribute read on a None block
    blocks,            \* Graph._blocks : label -> block
    forward_edges,     \* Graph._forward_edges : block -> set of out edges
    backward_edges,    \* Graph._backward_edges : block -> set of in edges
    opaque_edges,      \* Graph._opaque_edges
    entry_block,       \* Graph.entry_block
    graph_last,        \* the last graph call: its arguments and how it ended
    \* ---- Trace (Trace.from_graph) ----
    instructions,      \* InsnBlock._instructions of every block of the graph
    trace_pc,          \* "idle", "run" (inside `while True`), "done" (returned),
                       \* "raised" (out of memory), "frame" (push and pop
                       \* called on a frame of its own) or "locals" (get
                       \* and set called on a frame of its own)
    to_visit,          \* the DFS stack: <<frame, edges still to take>>
    traversed,         \* the blocks on the current DFS path
    states,            \* block -> list of (entry frame, exit frame); for a
                       \* frame of its own, the last call made on it
    errors,            \* what the verifier was told through report()
    max_stack,         \* Trace.max_stack
    max_locals,        \* Trace.max_locals
    peak,              \* the most stack slots and locals any traced frame held
    opaque_log,        \* every opaque edge the walk took and what became of it,
                       \* with the key it was added under in `subroutines`
    \* ---- Disassembler (_create_blocks_and_edges) ----
    code,              \* the Code attribute: instructions by offset, exception_table
    disasm_pc,         \* "idle", "loop", "unbound", "trim", "handlers", "done" or "raised"
    cur_offset,        \* `offset` of the instruction the loop is at
    cur_block,         \* `block`
    is_new_block,
    starting,          \* `starting` : offset -> the block that starts there
    forward_jumps,     \* `forward_jumps` : target offset -> the edges waiting for it
    owner,             \* history: offset -> the block the instruction went to
    \* ---- ConstantPool.read ----
    buffer,            \* the constant pool entries in the class file, in order
    version,           \* the class file version read() is given (its major number)
    read_pc,           \* "idle", "parse", "deref", "done" or "raised"
    read_offset,       \* `offset` of the parsing loop
    lookups,           \* `lookups` : offset -> the entry read there
    read_todo,         \* the offsets `for index, lookup in lookups.items()` has left
    read_exc,          \* the exception read() or write() raised, "none" if none
    \* ---- ConstantPool.write ----
    write_offset,      \* `offset` of the writing loop
    written,           \* the pool as write() left it and the count it packed
    \* ---- Assembler (InsnGraph.assemble, _write_block) ----
    inline_blocks,     \* the blocks whose `inline_` is true
    remove_dead_blocks,\* the argument of assemble()
    asm_pc,            \* "idle", "blocks", "force", "adjust", "frames", "finish",
                       \* "done" or "raised"
    asm_todo,          \* the labels the running loop has left
    asm_offset,        \* `offset`
    asm_offsets,       \* `offsets` : block -> list of (start, end)
    asm_order,         \* the keys of `offsets` in insertion order
    asm_jumps,         \* `jumps` : offset -> edge
    asm_exceptions,    \* `exceptions`, a list
    asm_dead,          \* `dead`
    asm_last,          \* block -> the order its set of out edges is walked in
    asm_exc,           \* the exception assemble() raised, "none" if none
    asm_code,          \* the Code assemble() builds: its tables and its switch
                       \* instructions, with the `switches` of assemble()
    asm_handlers,      \* history: the exception edge each table row came from
    asm_args           \* history: the arguments of assemble() and the class version

poolVars == <<pool_index, forward_entries, backward_entries, pool_last, pool_added>>

graphVars == <<build, blocks, forward_edges, backward_edges, opaque_edges,
               entry_block, graph_last>>

traceVars == <<instructions, trace_pc, to_visit, traversed, states, errors,
               max_stack, max_locals, peak, opaque_log>>

traceLocals == <<trace_pc, to_visit, traversed, states, errors, max_stack,
                 max_locals, peak, opaque_log>>

disasmVars == <<code, disasm_pc, cur_offset, cur_block, is_new_block, starting,
                forward_jumps, owner>>

readVars == <<buffer, version, read_pc, read_offset, lookups, read_todo, read_exc,
              write_offset, written>>

asmVars == <<inline_blocks, remove_dead_blocks, asm_pc, asm_todo, asm_offset,
             asm_offsets, asm_order, asm_jumps, asm_exceptions, asm_dead, asm_last,
             asm_exc, asm_code, asm_handlers, asm_args>>

vars == <<poolVars, graphVars, traceVars, disasmVars, readVars, asmVars>>

(***************************************************************************)
(*                            CONSTANT POOL                                *)
(***************************************************************************)

\* The largest index add() is driven to in the model.
MaxPoolIndex == 4

NoneVal == "None"

\* A constant is a record: its class, up to three string payload fields and
\* one integer payload field. Nested constants (the Class and NameAndType of
\* a MethodRef, the NameAndType of a Dynamic) are flattened into s1..s3.
Const(cls, s1, s2, s3, n) == [cls |-> cls, s1 |-> s1, s2 |-> s2, s3 |-> s3, n |-> n]

UTF8(v)                  == Const("UTF8", v, "", "", 0)
IntegerC(v)              == Const("Integer", "", "", "", v)
FloatC(v)                == Const("Float", v, "", "", 0)
LongC(v)                 == Const("Long", "", "", "", v)
DoubleC(v)               == Const("Double", v, "", "", 0)
ClassC(name)             == Const("Class", name, "", "", 0)
StringC(v)               == Const("String", v, "", "", 0)
NameAndType(name, desc)  == Const("NameAndType", name, desc, "", 0)
MethodRef(c, name, desc) == Const("MethodRef", c, name, desc, 0)
InterfaceMethodRef(c, name, desc) == Const("InterfaceMethodRef", c, name, desc, 0)
Dynamic(bsm, name, desc) == Const("Dynamic", "", name, desc, bsm)
InvokeDynamic(bsm, name, desc) == Const("InvokeDynamic", "", name, desc, bsm)
Index(i)                 == Const("Index", "", "", "", i)

\* The constants the model's callers pass to the pool.
RealConstants ==
    { UTF8("a"), FloatC("nan"), LongC(1), ClassC("a"),
      MethodRef("a", "a", "b"), InterfaceMethodRef("a", "a", "b"),
      Dynamic(0, "a", "b"), Dynamic(1, "a", "b"), InvokeDynamic(0, "a", "b") }

MethodType(desc)         == Const("MethodType", desc, "", "", 0)

IndexConstants == { Index(i) : i \in 1..2 }

Constants == RealConstants \cup IndexConstants

\* `wide = True` on Long and Double, False on ConstantInfo.
Wide(c) == c.cls \in {"Long", "Double"}

\* The direct base class of each constant class (ConstantInfo for the rest).
BaseClass(cls) ==
    CASE cls = "InterfaceMethodRef" -> "MethodRef"
      [] cls = "InvokeDynamic"      -> "Dynamic"
      [] OTHER                      -> "ConstantInfo"

\* issubclass(sub, sup), the hierarchy is at most one level deep below
\* ConstantInfo.
IsSubclass(sub, sup) == sub = sup \/ BaseClass(sub) = sup \/ sup = "ConstantInfo"

\* The `value` property. Dynamic and InvokeDynamic define none, so they
\* inherit Constant.value, whose body is `...` and which returns None.
Value(c) ==
    CASE c.cls \in {"UTF8", "Float", "Double", "Class", "String", "MethodType"} ->
            [s |-> <<c.s1>>, n |-> 0]
      [] c.cls \in {"Integer", "Long", "Index"} ->
            [s |-> <<>>, n |-> c.n]
      [] c.cls = "NameAndType" ->
            [s |-> <<c.s1, c.s2>>, n |-> 0]
      [] c.cls \in {"MethodRef", "InterfaceMethodRef"} ->
            [s |-> <<c.s1, c.s2, c.s3>>, n |-> 0]
      [] OTHER ->
            [s |-> <<NoneVal>>, n |-> 0]

\* Python's == on two values: a float NaN is unequal to everything,
\* itself included.
IsNaN(c) == c.cls \in {"Float", "Double"} /\ c.s1 = "nan"

ValueEq(a, b) == ~IsNaN(a) /\ ~IsNaN(b) /\ Value(a) = Value(b)

\* Constant.__eq__(self, other)
ConstantEq(self, other) == IsSubclass(other.cls, self.cls) /\ ValueEq(other, self)

\* The interpreter's `a == b`: when type(b) is a proper subclass of type(a),
\* b's __eq__ is tried first (and it never returns NotImplemented).
PyEq(a, b) ==
    IF a.cls # b.cls /\ IsSubclass(b.cls, a.cls)
    THEN ConstantEq(b, a)
    ELSE ConstantEq(a, b)

\* Constant.__hash__: hash(self.value). The hash of a NaN is derived from
\* the address of the float object `self.value` creates, so the hash of
\* a fresh NaN constant matches no stored hash.
HashEq(a, b) == ~IsNaN(a) /\ ~IsNaN(b) /\ Value(a) = Value(b)

\* dict lookup of `key`: the stored keys with the same hash that compare
\* equal (the caller's constant is a fresh object, so identity never hits).
DictKeys(d, key) == { k \in DOMAIN d : HashEq(k, key) /\ PyEq(k, key) }

DictHas(d, key) == DictKeys(d, key) # {}

DictGet(d, key) == d[CHOOSE k \in DictKeys(d, key) : TRUE]

\* d[key] = v: an equal stored key keeps its key object and takes the value.
DictSet(d, key, v) ==
    IF DictHas(d, key)
    THEN [d EXCEPT ![CHOOSE k \in DictKeys(d, key) : TRUE] = v]
    ELSE [k \in DOMAIN d \cup {key} |-> IF k = key THEN v ELSE d[k]]

\* ConstantPool.get(index): the constant, or an Index(index) placeholder.
PoolGet(fwd, index) == IF index \in DOMAIN fwd THEN fwd[index] ELSE Index(index)

\* ConstantPool.add(constant) as a function of the pool: the index returned
\* and the pool after it.
PoolAddResult(idx, fwd, bwd, c) ==
    IF c.cls = "Index"
    THEN [ret |-> c.n, idx |-> idx, fwd |-> fwd, bwd |-> bwd]
    ELSE IF DictHas(bwd, c)
    THEN [ret |-> DictGet(bwd, c), idx |-> idx, fwd |-> fwd, bwd |-> bwd]
    ELSE [ret |-> idx,
          idx |-> idx + (IF Wide(c) THEN 2 ELSE 1),
          fwd |-> [i \in DOMAIN fwd \cup {idx} |-> IF i = idx THEN c ELSE fwd[i]],
          bwd |-> DictSet(bwd, c, idx)]

EmptyFn == [x \in {} |-> 0]

Put(f, k, v) == [x \in DOMAIN f \cup {k} |-> IF x = k THEN v ELSE f[x]]

PoolInit ==
    /\ pool_index = 1
    /\ forward_entries = EmptyFn
    /\ backward_entries = EmptyFn
    /\ pool_last = [op |-> "init", c |-> Index(0), ret |-> 0, grew |-> FALSE, seen |-> {}]
    /\ pool_added = {}

\* The largest value of the u16 `constant_pool_count` that write() packs.
U16Max == 65535

\* ConstantPool.add(constant). The model's callers add to a pool that is
\* short or within two slots of the largest count.
Add(c) ==
    /\ pool_index <= MaxPoolIndex \/ pool_index \in (U16Max - 2)..U16Max
    /\ LET r == PoolAddResult(pool_index, forward_entries, backward_entries, c) IN
        /\ pool_index' = r.idx
        /\ forward_entries' = r.fwd
        /\ backward_entries' = r.bwd
        /\ pool_last' = [op |-> "add", c |-> c, ret |-> r.ret,
                         grew |-> (r.fwd # forward_entries \/ r.idx # pool_index),
                         seen |-> { p[2] : p \in { q \in pool_added : q[1] = c } }]
        /\ pool_added' = pool_added \cup {<<c, r.ret>>}
    /\ UNCHANGED <<graphVars, traceVars, disasmVars, asmVars, readVars>>

\* The indices and the items the model's callers assign.
SetIndexes == {0, 1, 2, U16Max - 2}

SetConstants == { UTF8("a"), LongC(1), Index(1) }

\* The largest index add() is driven to in a short pool that is also
\* assigned to.
MaxSetIndex == 2

\* ConstantPool.__setitem__(index, item)
SetItem(index, item) ==
    /\ IF item.cls = "Index"
       THEN UNCHANGED <<pool_index, forward_entries, backward_entries, pool_added>>
       ELSE /\ pool_added' = {}
            /\ forward_entries' = Put(forward_entries, index, item)
            /\ backward_entries' = DictSet(backward_entries, item, index)
            /\ pool_index' = IF index >= pool_index
                              THEN index + 1 + (IF Wide(item) THEN 1 ELSE 0)
                              ELSE pool_index
    /\ pool_last' = [op |-> "setitem", c |-> item, ret |-> index,
                     grew |-> (item.cls # "Index" /\ index >= pool_index), seen |-> {}]
    /\ UNCHANGED <<graphVars, traceVars, disasmVars, asmVars, readVars>>

\* ConstantPool.clear()
Clear ==
    /\ pool_index' = 1
    /\ forward_entries' = EmptyFn
    /\ backward_entries' = EmptyFn
    /\ pool_last' = [op |-> "clear", c |-> Index(0), ret |-> 0, grew |-> FALSE, seen |-> {}]
    /\ pool_added' = {}
    /\ UNCHANGED <<graphVars, traceVars, disasmVars, asmVars, readVars>>

(***************************************************************************)
(*                         CONSTANT POOL: READ                             *)
(***************************************************************************)

\* The most entries a class file of the model has in its constant pool.
MaxEntries == 3

\* An entry as constant.read(buffer) leaves it: the tag and what was
\* unpacked, a string, a number or the index of another entry.
RawEntry(tag, s, ref) == [tag |-> tag, s |-> s, ref |-> ref]

\* The tags of _constant_map the model's class files use. "Unknown" stands
\* for a tag byte that is no key of _constant_map (2, say).
KnownTags == {"UTF8", "Long", "Class", "String", "MethodType"}

\* The class file versions read() is given: 45.0 and 51.0.
Versions == {45, 51}

\* `since` of the constant class: the major number of the Version.
SinceAlways(tag) == 45

Since(tag) == IF tag = "MethodType" THEN 51 ELSE 45

\* Version.__gt__ on two versions with minor number 0.
VersionGt(a, b) == a > b

RawEntries ==
    { RawEntry("UTF8", "a", 0), RawEntry("Long", "", 7), RawEntry("Unknown", "", 0) }
    \cup { RawEntry(tag, "", i) : tag \in {"Class", "String", "MethodType"},
                                   i \in 1..MaxEntries }

\* The constant pools read: one to MaxEntries entries.
Buffers == UNION { [1..n -> RawEntries] : n \in 1..MaxEntries }

\* constants_count as the class file states it: one more than the slots the
\* entries take.
RECURSIVE Slots(_)
Slots(buf) ==
    IF buf = <<>> THEN 0
    ELSE (IF buf[1].tag = "Long" THEN 2 ELSE 1) + Slots(Tail(buf))

\* str(constant.value) as the name or the value of the constant built on it.
ValueStr(c) == IF Value(c).s # <<>> THEN Value(c).s[1] ELSE "int"

\* dynamic_deref(index, visited) and the lookup lambdas of the entries: the
\* constant, or the exception raised.
RECURSIVE Lookup(_, _, _)
RECURSIVE DynamicDeref(_, _, _)
DynamicDeref(lk, index, visited) ==
    IF index \in visited THEN [exc |-> "Recursive constant", c |-> Index(index)]
    ELSE IF index \notin DOMAIN lk THEN [exc |-> "KeyError", c |-> Index(index)]
    ELSE Lookup(lk, index, visited \cup {index})

Lookup(lk, index, visited) ==
    CASE lk[index].tag = "UTF8" -> [exc |-> "none", c |-> UTF8(lk[index].s)]
      [] lk[index].tag = "Long" -> [exc |-> "none", c |-> LongC(lk[index].ref)]
      [] OTHER ->
           \* Class.read, String.read and MethodType.read:
           \* cls(dynamic_deref(index).value)
           CHOOSE x \in { IF r.exc # "none" THEN r
                          ELSE [exc |-> "none",
                                c |-> Const(lk[index].tag, ValueStr(r.c), "", "", 0)] :
                          r \in {DynamicDeref(lk, lk[index].ref, visited)} } : TRUE

\* No write() has finished.
NotWritten == [count |-> 0, fwd |-> EmptyFn]

\* ConstantPool.read(version, buffer) up to the parsing loop.
ReadInit ==
    /\ buffer \in Buffers
    /\ version \in Versions
    /\ read_pc = "parse"
    /\ read_offset = 1
    /\ lookups = EmptyFn
    /\ read_todo = <<>>
    /\ read_exc = "none"
    /\ write_offset = 1
    /\ written = NotWritten
    /\ pool_index = 1
    /\ forward_entries = EmptyFn
    /\ backward_entries = EmptyFn
    /\ pool_last = [op |-> "init", c |-> Index(0), ret |-> 0, grew |-> FALSE, seen |-> {}]
    /\ pool_added = {}

\* One pass of `while offset < constants_count`; after the last one
\* `constant_pool._index = offset`.
ReadEntry ==
    /\ read_pc = "parse"
    /\ LET raw  == buffer[Len(read_todo) + 1]
           next == read_offset + (IF raw.tag = "Long" THEN 2 ELSE 1)
       IN IF raw.tag \notin KnownTags
          THEN /\ read_pc' = "raised"
               /\ read_exc' = "Unknown constant tag"
               /\ UNCHANGED <<lookups, read_todo, read_offset, pool_index>>
          ELSE IF VersionGt(Since(raw.tag), version)
          THEN /\ read_pc' = "raised"
               /\ read_exc' = "Constant is not supported"
               /\ UNCHANGED <<lookups, read_todo, read_offset, pool_index>>
          ELSE /\ lookups' = Put(lookups, read_offset, raw)
               /\ read_todo' = Append(read_todo, read_offset)
               /\ read_offset' = next
               /\ UNCHANGED read_exc
               /\ IF next < 1 + Slots(buffer)
                  THEN UNCHANGED <<read_pc, pool_index>>
                  ELSE read_pc' = "deref" /\ pool_index' = next
    /\ UNCHANGED <<forward_entries, backward_entries, pool_last, pool_added, buffer,
                   version, write_offset, written, graphVars, traceVars, disasmVars, asmVars>>

\* One pass of `for index, lookup in lookups.items()`.
ReadDeref ==
    /\ read_pc = "deref"
    /\ \E r \in {Lookup(lookups, Head(read_todo), {})} :
         IF r.exc # "none"
         THEN /\ read_pc' = "raised"
              /\ read_exc' = r.exc
              /\ UNCHANGED <<forward_entries, backward_entries, read_todo>>
         ELSE /\ forward_entries' = Put(forward_entries, Head(read_todo), r.c)
              /\ backward_entries' = DictSet(backward_entries, r.c, Head(read_todo))
              /\ read_todo' = Tail(read_todo)
              /\ read_pc' = IF Tail(read_todo) = <<>> THEN "done" ELSE "deref"
              /\ UNCHANGED read_exc
    /\ UNCHANGED <<pool_index, pool_last, pool_added, buffer, version, read_offset,
                   lookups, write_offset, written, graphVars, traceVars, disasmVars, asmVars>>

(***************************************************************************)
(*                         CONSTANT POOL: WRITE                            *)
(***************************************************************************)

\* The constants of the pools written.
WriteConstants == { UTF8("a"), LongC(1), ClassC("a"), MethodType("a") }

\* constant.write(class_file, buffer) after the tag byte: the entry written,
\* and the pool after it (Class, String and MethodType add their UTF8 to
\* the pool of the class file, the pool that is being written).
ConstantWrite(idx, fwd, bwd, c) ==
    CASE c.cls = "UTF8" ->
            [raw |-> RawEntry("UTF8", c.s1, 0), idx |-> idx, fwd |-> fwd, bwd |-> bwd]
      [] c.cls = "Long" ->
            [raw |-> RawEntry("Long", "", c.n), idx |-> idx, fwd |-> fwd, bwd |-> bwd]
      [] OTHER ->
            CHOOSE x \in { [raw |-> RawEntry(c.cls, "", r.ret), idx |-> r.idx,
                            fwd |-> r.fwd, bwd |-> r.bwd] :
                           r \in {PoolAddResult(idx, fwd, bwd, UTF8(c.s1))} } : TRUE

\* write(class_file, buffer) up to the loop, for a class file of either
\* version.
WriteInit ==
    /\ read_pc = "idle"
    /\ read_pc' = "write"
    /\ version' \in Versions
    /\ write_offset' = 1
    /\ buffer' = <<>>
    /\ UNCHANGED <<poolVars, read_offset, lookups, read_todo, read_exc, written,
                   graphVars, traceVars, disasmVars, asmVars>>

\* One pass of `while offset < self._index`, and what follows the loop: the
\* count that replaces the two placeholder bytes is `offset`.
WriteEntry ==
    /\ read_pc = "write"
    /\ IF write_offset >= pool_index
       THEN /\ written' = [count |-> write_offset, fwd |-> forward_entries]
            /\ read_pc' = "written"
            /\ UNCHANGED <<pool_index, forward_entries, backward_entries, buffer,
                           write_offset, read_exc>>
       ELSE IF write_offset \notin DOMAIN forward_entries
       THEN /\ read_pc' = "raised"
            /\ read_exc' = "KeyError"
            /\ UNCHANGED <<pool_index, forward_entries, backward_entries, buffer,
                           write_offset, written>>
       ELSE \E w \in {ConstantWrite(pool_index, forward_entries, backward_entries,
                                    forward_entries[write_offset])} :
            /\ buffer' = Append(buffer, w.raw)
            /\ pool_index' = w.idx
            /\ forward_entries' = w.fwd
            /\ backward_entries' = w.bwd
            /\ write_offset' = write_offset
                                + (IF Wide(forward_entries[write_offset]) THEN 2 ELSE 1)
            /\ UNCHANGED <<read_pc, read_exc, written>>
    /\ UNCHANGED <<pool_last, pool_added, version, read_offset, lookups, read_todo,
                   graphVars, traceVars, disasmVars, asmVars>>

\* ConstantPool.read(version, buffer) on the bytes written, for the version
\* of the class file that was written: a new pool, up to the parsing loop
\* (which a count of 1 does not enter).
ReadBack ==
    /\ read_pc = "written"
    /\ read_pc' = IF written.count > 1 THEN "parse" ELSE "done"
    /\ pool_index' = 1
    /\ forward_entries' = EmptyFn
    /\ backward_entries' = EmptyFn
    /\ read_offset' = 1
    /\ lookups' = EmptyFn
    /\ read_todo' = <<>>
    /\ UNCHANGED <<pool_last, pool_added, buffer, version, read_exc, write_offset,
                   written, graphVars, traceVars, disasmVars, asmVars>>

(***************************************************************************)
(*                        CONTROL FLOW GRAPH                               *)
(***************************************************************************)

\* The most edges the graph holds (as out edges, in edges or opaque edges)
\* when the model's callers still connect another.
MaxGraphEdges == 2

\* A block object: its identity (Block.__hash__ is id(self)), its label and
\* its class. Two objects may carry the same label.
Block(id, label, kind) == [id |-> id, label |-> label, kind |-> kind]

\* Python's None where a block is expected (an opaque edge's `to`, the
\* entry block after remove(entry)).
NoneBlock == Block(0, 0, "None")

\* InsnGraph.__init__: InsnBlock(0), InsnReturnBlock(), InsnRethrowBlock().
EntryBlock   == Block(1, 0, "InsnBlock")
ReturnBlock  == Block(2, -1, "InsnReturnBlock")
RethrowBlock == Block(3, -2, "InsnRethrowBlock")

\* The blocks the callers create: two objects with the label 1.
Block1  == Block(4, 1, "InsnBlock")
Block1x == Block(5, 1, "InsnBlock")

UserBlocks == {EntryBlock, ReturnBlock, Block1, Block1x}

\* `label`, `from_` and `to` are C-typed attributes (cdef readonly int label,
\* cdef readonly Block to). Reading `.label` off a None block raises
\* AttributeError only when the extension is built with nonecheck; otherwise
\* the read returns whatever int lies behind None. The model takes that int
\* to be a label no block has; were it a label of the graph, the graph would
\* be the one modelled less the entries under that int and under None.
Builds == {"nonecheck", "unchecked"}

Label(b) == IF b # NoneBlock THEN b.label ELSE 99

\* Block.__eq__ as the interpreter applies it to `a == b`, None included.
BlockEq(a, b) ==
    IF a = NoneBlock \/ b = NoneBlock THEN a = b ELSE a.label = b.label

\* An edge object. `value` is a SwitchEdge's value or an ExceptionEdge's
\* priority, `throwable` an ExceptionEdge's class name. Edges that are equal
\* records are equal and hash-equal in Python (InsnEdge.__eq__/__hash__), and
\* edges between different block objects differ in their hash.
Edge(cls, from, to, insn, value, throwable) ==
    [cls |-> cls, from |-> from, to |-> to, insn |-> insn, value |-> value,
     throwable |-> throwable]

FallthroughEdge(from, to, insn) == Edge("FallthroughEdge", from, to, insn, 0, "")
JumpEdge(from, to, insn)        == Edge("JumpEdge", from, to, insn, 0, "")
JsrJumpEdge(from, to)           == Edge("JsrJumpEdge", from, to, "jsr", 0, "")
JsrFallthroughEdge(from, to)    == Edge("JsrFallthroughEdge", from, to, "jsr", 0, "")
RetEdge(from, to)               == Edge("RetEdge", from, to, "ret", 0, "")
SwitchEdge(from, to, value)     == Edge("SwitchEdge", from, to, "tableswitch", value, "")

\* The `value` of the SwitchEdge of a switch's default: None. The values of
\* the cases are indexes and keys from 0 on.
NoneValue == -1

\* SwitchEdge(from_, to, instruction, value) for either switch instruction.
SwitchEdgeOf(from, to, insn, value) == Edge("SwitchEdge", from, to, insn, value, "")
ExceptionEdge(from, to, priority, throwable) ==
    Edge("ExceptionEdge", from, to, "", priority,
         IF throwable = "None" THEN "Throwable" ELSE throwable)

\* The classes whose `limit` is 1: FallthroughEdge, JumpEdge and the
\* subclasses of JumpEdge that do not override it. SwitchEdge sets None,
\* ExceptionEdge inherits Edge's None.
LimitedClasses ==
    {"FallthroughEdge", "JumpEdge", "JsrJumpEdge", "JsrFallthroughEdge", "RetEdge"}

HasLimit(cls) == cls \in LimitedClasses

Limit(cls) == 1

\* A graph as a value: the five fields of Graph.
GraphOf(b, f, w, o, e) ==
    [blocks |-> b, forward |-> f, backward |-> w, opaque |-> o, entry |-> e]

Graph == GraphOf(blocks, forward_edges, backward_edges, opaque_edges, entry_block)

\* The result of a call: the graph it leaves and the exception it raised.
Outcome(g, exc) == [g |-> g, exc |-> exc]

Del(f, k) == [x \in DOMAIN f \ {k} |-> f[x]]

SetDefault(f, k, v) == IF k \in DOMAIN f THEN f ELSE Put(f, k, v)

\* Graph._add(block, check)
GAdd(g, block, check) ==
    IF check /\ Label(block) \in DOMAIN g.blocks
    THEN IF ~BlockEq(g.blocks[Label(block)], block)
         THEN Outcome(g, "ValueError")
         ELSE Outcome(g, "none")
    ELSE IF check /\ block.kind \in {"InsnReturnBlock", "InsnRethrowBlock"}
    THEN Outcome(g, "ValueError")
    ELSE Outcome([g EXCEPT !.blocks = Put(g.blocks, Label(block), block),
                           !.forward = Put(g.forward, block, {}),
                           !.backward = Put(g.backward, block, {})], "none")

\* Graph._disconnect(edge)
GDisconnect(g, edge) ==
    LET g1 == [g EXCEPT !.blocks = SetDefault(g.blocks, edge.from.label, edge.from)] IN
    IF edge.to = NoneBlock /\ build = "nonecheck"
    THEN Outcome(g1, "AttributeError")
    ELSE
      LET g2 == [g1 EXCEPT !.blocks = SetDefault(g1.blocks, Label(edge.to), edge.to)]
          g3 == IF edge.from \in DOMAIN g2.forward /\ edge \in g2.forward[edge.from]
                THEN [g2 EXCEPT !.forward[edge.from] = @ \ {edge}]
                ELSE g2
      IN IF edge.to # NoneBlock
         THEN IF edge.to \in DOMAIN g3.backward /\ edge \in g3.backward[edge.to]
              THEN Outcome([g3 EXCEPT !.backward[edge.to] = @ \ {edge}], "none")
              ELSE Outcome(g3, "none")
         ELSE IF edge \in g3.opaque
              THEN Outcome([g3 EXCEPT !.opaque = @ \ {edge}], "none")
              ELSE Outcome(g3, "KeyError")

\* `for edge in edges: self.disconnect(edge)`: the set is walked in any
\* order and the walk ends at the first exception.
RECURSIVE GDisconnectAll(_, _)
GDisconnectAll(g, edges) ==
    IF edges = {} THEN {Outcome(g, "none")}
    ELSE UNION { LET r == GDisconnect(g, e) IN
                 IF r.exc # "none" THEN {r} ELSE GDisconnectAll(r.g, edges \ {e})
                 : e \in edges }

\* Graph._remove(block, check)
GRemove(g, block, check) ==
    IF check /\ (BlockEq(block, ReturnBlock) \/ BlockEq(block, RethrowBlock))
    THEN {Outcome(g, "ValueError")}
    ELSE IF block.label \notin DOMAIN g.blocks
    THEN {Outcome(g, "ValueError")}
    ELSE
      LET g1 == [g EXCEPT !.blocks = Del(g.blocks, block.label)]
          g2 == IF BlockEq(block, g1.entry) THEN [g1 EXCEPT !.entry = NoneBlock] ELSE g1
      IN IF block \notin DOMAIN g2.forward
         THEN {Outcome(g2, "KeyError")}
         ELSE GDisconnectAll([g2 EXCEPT !.forward = Del(g2.forward, block)],
                             g2.forward[block])

\* _connect without its check of the return block.
ConnectRejectsNoReturn(g, edge) ==
    \/ BlockEq(edge.to, g.entry)
    \/ BlockEq(edge.from, RethrowBlock)

\* The three checks _connect makes first.
ConnectRejects(g, edge) ==
    \/ BlockEq(edge.to, g.entry)
    \/ BlockEq(edge.from, ReturnBlock)
    \/ BlockEq(edge.from, RethrowBlock)

\* Out edges counted so that a jump edge also conflicts with the fallthrough
\* edges of its block.
ConflictsWithFallthrough(g, edge) ==
    IF edge.from \in DOMAIN g.forward
    THEN { e \in g.forward[edge.from] :
            e.cls = edge.cls \/ (edge.cls = "JumpEdge" /\ e.cls = "FallthroughEdge") }
    ELSE {}

\* The out edges _connect counts against edge.limit.
Conflicts(g, edge) ==
    IF edge.from \in DOMAIN g.forward
    THEN { e \in g.forward[edge.from] : e.cls = edge.cls }
    ELSE {}

\* A link that forgets the opaque set.
GLinkNoOpaque(g, edge) ==
    LET g1 == [g EXCEPT !.forward[edge.from] = @ \cup {edge}] IN
    IF edge.to # NoneBlock /\ edge.to \in DOMAIN g1.backward
    THEN Outcome([g1 EXCEPT !.backward[edge.to] = @ \cup {edge}], "none")
    ELSE Outcome(g1, "none")

\* The tail of _connect: `forward.add(edge)`, then the in edges of
\* edge.to or the opaque edges.
GLink(g, edge) ==
    LET g1 == [g EXCEPT !.forward[edge.from] = @ \cup {edge}] IN
    IF edge.to # NoneBlock
    THEN IF edge.to \in DOMAIN g1.backward
         THEN Outcome([g1 EXCEPT !.backward[edge.to] = @ \cup {edge}], "none")
         ELSE Outcome(g1, "KeyError")
    ELSE Outcome([g1 EXCEPT !.opaque = @ \cup {edge}], "none")

\* _connect once both blocks are looked up: the limit, then the link.
GConnectEdge(g, edge, overwrite, check) ==
    IF edge.from \notin DOMAIN g.forward
    THEN {Outcome(g, "KeyError")}
    ELSE IF check /\ HasLimit(edge.cls) /\ Cardinality(Conflicts(g, edge)) >= Limit(edge.cls)
    THEN IF overwrite
         THEN { IF r.exc # "none" THEN r ELSE GLink(r.g, edge)
                : r \in GDisconnectAll(g, Conflicts(g, edge)) }
         ELSE {Outcome(g, "ValueError")}
    ELSE {GLink(g, edge)}

\* Graph._connect(edge, overwrite, check)
GConnect(g, edge, overwrite, check) ==
    IF ~check THEN GConnectEdge(g, edge, overwrite, check)
    ELSE IF ConnectRejects(g, edge) THEN {Outcome(g, "ValueError")}
    ELSE
      LET r1 == IF edge.from.label \notin DOMAIN g.blocks
                THEN GAdd(g, edge.from, TRUE) ELSE Outcome(g, "none")
      IN IF r1.exc # "none" THEN {r1}
         ELSE IF edge.to = NoneBlock /\ build = "nonecheck"
         THEN {Outcome(r1.g, "AttributeError")}
         ELSE
           LET r2 == IF Label(edge.to) \notin DOMAIN r1.g.blocks
                     THEN GAdd(r1.g, edge.to, TRUE) ELSE r1
           IN IF r2.exc # "none" THEN {r2}
              ELSE GConnectEdge(r2.g, edge, overwrite, check)

EmptyGraph == GraphOf(EmptyFn, EmptyFn, EmptyFn, {}, EntryBlock)

\* Graph.__init__: the entry, return and rethrow blocks are added unchecked.
FreshGraph ==
    GAdd(GAdd(GAdd(EmptyGraph, EntryBlock, FALSE).g, ReturnBlock, FALSE).g,
         RethrowBlock, FALSE).g

\* The graph disassemble() builds for a method whose code is a lone `ret`:
\* _connect(RetEdge(block, None, instruction), overwrite=False, check=False)
\* on the entry block.
RetGraph ==
    (CHOOSE r \in GConnect(FreshGraph, RetEdge(EntryBlock, NoneBlock), FALSE, FALSE) : TRUE).g

InitialGraphs == {FreshGraph, RetGraph}

\* The edges the model's callers connect and disconnect.
UserEdges ==
    { FallthroughEdge(EntryBlock, Block1, ""),
      FallthroughEdge(EntryBlock, ReturnBlock, "return"),
      JumpEdge(EntryBlock, Block1, "goto"),
      FallthroughEdge(Block1, ReturnBlock, "return"),
      JumpEdge(Block1, EntryBlock, "goto"),
      FallthroughEdge(ReturnBlock, Block1, ""),
      JumpEdge(RethrowBlock, Block1, "goto"),
      RetEdge(EntryBlock, NoneBlock),
      RetEdge(EntryBlock, Block1),
      SwitchEdge(EntryBlock, Block1, 0),
      SwitchEdge(EntryBlock, Block1, 1),
      JumpEdge(Block1x, ReturnBlock, "goto") }

NoEdge == Edge("", NoneBlock, NoneBlock, "", 0, "")

\* The edges of the set, or None where it has none.
EdgeOrNone(S) == IF S = {} THEN {NoEdge} ELSE S

\* Every edge held in some block's out edges.
ConnectedEdges(g) == UNION { g.forward[b] : b \in DOMAIN g.forward }

\* Every edge the graph holds anywhere.
HeldEdges(g) ==
    ConnectedEdges(g) \cup UNION { g.backward[b] : b \in DOMAIN g.backward } \cup g.opaque

\* The block is registered under its label and keyed in the out edges.
InGraph(g, b) ==
    /\ b.label \in DOMAIN g.blocks
    /\ g.blocks[b.label] = b
    /\ b \in DOMAIN g.forward

\* The argument of remove(block) where the record of the last call takes an
\* edge.
OfBlock(b) == Edge("", b, NoneBlock, "", 0, "")

\* What the last call was and how it ended: the exception it raised, whether
\* it changed the graph, and for a connect whether one of the three checks
\* rejects the edge, whether the out edges of its block already reach its
\* limit, and whether the call left the edge among the out edges with none
\* of the conflicting edges still in place. For a remove, the block and
\* whether it was a block of the graph; for a jump, the edge made and the out
\* edges its block had.
Last(op, edge, overwrite, r, g) ==
    [op |-> op, exc |-> r.exc, overwrite |-> overwrite,
     block |-> (IF op = "remove" THEN edge.from ELSE NoneBlock),
     ingraph |-> (op = "remove" /\ InGraph(g, edge.from)),
     edge |-> NoEdge, was |-> {},
     changed |-> (op = "connect" /\ r.g # g),
     rejects |-> (op = "connect" /\ ConnectRejects(g, edge)),
     exceeds |-> (op = "connect" /\ HasLimit(edge.cls) /\ InGraph(g, edge.from)
                    /\ Cardinality(Conflicts(g, edge)) >= Limit(edge.cls)),
     replaced |-> (op = "connect" /\ edge.from \in DOMAIN r.g.forward
                    /\ edge \in r.g.forward[edge.from]
                    /\ (Conflicts(g, edge) \ {edge}) \cap ConnectedEdges(r.g) = {})]

NoCall ==
    [op |-> "init", exc |-> "none", changed |-> FALSE, overwrite |-> FALSE,
     block |-> NoneBlock, ingraph |-> FALSE, edge |-> NoEdge, was |-> {},
     rejects |-> FALSE, exceeds |-> FALSE, replaced |-> FALSE]

SetGraph(g) ==
    /\ blocks' = g.blocks
    /\ forward_edges' = g.forward
    /\ backward_edges' = g.backward
    /\ opaque_edges' = g.opaque
    /\ entry_block' = g.entry
    /\ UNCHANGED build

GraphInit ==
    /\ build \in Builds
    /\ \E g \in InitialGraphs :
        /\ blocks = g.blocks
        /\ forward_edges = g.forward
        /\ backward_edges = g.backward
        /\ opaque_edges = g.opaque
        /\ entry_block = g.entry
    /\ graph_last = NoCall

\* Graph.add(block)
AddBlock(b) ==
    /\ LET r == GAdd(Graph, b, TRUE) IN
        /\ SetGraph(r.g)
        /\ graph_last' = Last("add", NoEdge, FALSE, r, Graph)
    /\ UNCHANGED <<poolVars, traceVars, disasmVars, asmVars, readVars>>

\* Graph.remove(block)
RemoveBlock(b) ==
    /\ \E r \in GRemove(Graph, b, TRUE) :
        /\ SetGraph(r.g)
        /\ graph_last' = Last("remove", OfBlock(b), FALSE, r, Graph)
    /\ UNCHANGED <<poolVars, traceVars, disasmVars, asmVars, readVars>>

\* Graph.connect(edge, overwrite)
Connect(e, overwrite) ==
    /\ Cardinality(HeldEdges(Graph)) < MaxGraphEdges
    /\ \E r \in GConnect(Graph, e, overwrite, TRUE) :
        /\ SetGraph(r.g)
        /\ graph_last' = Last("connect", e, overwrite, r, Graph)
    /\ UNCHANGED <<poolVars, traceVars, disasmVars, asmVars, readVars>>

\* Graph.disconnect(edge)
Disconnect(e) ==
    /\ LET r == GDisconnect(Graph, e) IN
        /\ SetGraph(r.g)
        /\ graph_last' = Last("disconnect", e, FALSE, r, Graph)
    /\ UNCHANGED <<poolVars, traceVars, disasmVars, asmVars, readVars>>

(***************************************************************************)
(*                               TRACE                                     *)
(***************************************************************************)

Block2 == Block(6, 2, "InsnBlock")

Max(a, b) == IF a >= b THEN a ELSE b

\* An Entry: its type and its source (an edge, an instruction in a block, or
\* NoEdge for None). Values are None throughout the model.
Entry(type, src) == [type |-> type, src |-> src]

InstructionInBlock(block, insn, index) ==
    Edge("InstructionInBlock", block, NoneBlock, insn, index, "")

\* Frame.top
Top == Entry("top", NoEdge)

Error(type, msg) == [type |-> type, msg |-> msg]

\* Frame.copy(deep=False): accesses are not carried over, the maxima are.
FrameCopy(f) == [f EXCEPT !.accesses = <<>>]

\* type.internal_size: long and double take two slots.
InternalSize(type) == IF type \in {"long", "double"} THEN 2 ELSE 1

\* Frame.push: the entry, then Frame.top above it if its type is wide.
FramePush(f, entry) ==
    LET st == IF InternalSize(entry.type) > 1
              THEN Append(Append(f.stack, entry), Top)
              ELSE Append(f.stack, entry)
    IN [f EXCEPT !.stack = st, !.max_stack = Max(@, Len(st))]

\* Frame.pop(): the frame, the entry popped and the errors reported. One
\* entry of the list is popped, whatever lies under it. `reports` holds the
\* argument of each call of report_stack_underflow.
FramePop(f) ==
    IF f.stack = <<>>
    THEN [f |-> f, entry |-> Top, errs |-> {Error("STACK_UNDERFLOW", "")},
          entries |-> <<Top>>, reports |-> <<-1>>]
    ELSE [f |-> [f EXCEPT !.stack = SubSeq(@, 1, Len(@) - 1)],
          entry |-> f.stack[Len(f.stack)],
          errs |-> IF InternalSize(f.stack[Len(f.stack)].type) > 1
                   THEN {Error("INVALID_TYPE_CATEGORY", "")} ELSE {},
          entries |-> <<f.stack[Len(f.stack)]>>, reports |-> <<>>]

\* The same without the entries made up for the ones that are missing.
FramePopCountHeldOnly(f, count) ==
    LET had == IF Len(f.stack) < count THEN Len(f.stack) ELSE count IN
    [f |-> [f EXCEPT !.stack = SubSeq(@, 1, Len(@) - had)],
     errs |-> IF had < count THEN {Error("STACK_UNDERFLOW", "")} ELSE {},
     entries |-> [i \in 1..had |-> f.stack[Len(f.stack) + 1 - i]],
     reports |-> IF had < count THEN <<had - count>> ELSE <<>>]

\* Frame.pop(count) for a count above one: the entries of the list that are
\* there are popped, Frame.top stands for each one that is missing, the first
\* entry is checked for its category and the number of missing entries is
\* reported in one call.
FramePopCount(f, count) ==
    LET had == IF Len(f.stack) < count THEN Len(f.stack) ELSE count IN
    [f |-> [f EXCEPT !.stack = SubSeq(@, 1, Len(@) - had)],
     errs |-> (IF had > 0 /\ InternalSize(f.stack[Len(f.stack)].type) > 1
               THEN {Error("INVALID_TYPE_CATEGORY", "")} ELSE {})
              \cup (IF had < count THEN {Error("STACK_UNDERFLOW", "")} ELSE {}),
     entries |-> [i \in 1..count |-> IF i <= had THEN f.stack[Len(f.stack) + 1 - i] ELSE Top],
     reports |-> IF had < count THEN <<had - count>> ELSE <<>>]

\* Frame.get(index)
FrameGet(f, index) ==
    IF index \in DOMAIN f.locals
    THEN [f |-> [f EXCEPT !.accesses = Append(@, <<TRUE, index>>)],
          entry |-> f.locals[index], errs |-> {}]
    ELSE [f |-> f, entry |-> Top, errs |-> {Error("UNKNOWN_LOCAL", "")}]

\* Frame.set(index, entry): a two-slot entry has Frame.top stored in the local
\* after it. The early return needs the local to hold the very object being
\* stored; no instruction of the model puts a local's entry on the stack and
\* a call with a type makes a new entry, so the stored entry is never that
\* object.
FrameSet(f, index, entry) ==
    [f EXCEPT !.locals = IF InternalSize(entry.type) > 1
                         THEN Put(Put(@, index, entry), index + 1, Top)
                         ELSE Put(@, index, entry),
              !.accesses = Append(@, <<FALSE, index>>),
              !.max_locals = Max(@, index + InternalSize(entry.type))]

\* Frame.initial(method) of an instance method without arguments.
InitialFrame ==
    FrameSet([stack |-> <<>>, locals |-> EmptyFn, accesses |-> <<>>,
              max_stack |-> 0, max_locals |-> 0], 0, Entry("reference", NoEdge))

\* instruction.trace(frame) with frame.start(src) in effect. astore and ret
\* use local 1.
InsnTrace(f, insn, src) ==
    CASE insn = "iconst" -> [f |-> FramePush(f, Entry("int", src)), errs |-> {}]
      [] insn = "jsr" -> [f |-> FramePush(f, Entry("returnAddress", src)), errs |-> {}]
      [] insn = "astore" ->
            LET r == FramePop(f) IN
            [f |-> FrameSet(r.f, 1, r.entry),
             errs |-> r.errs \cup (IF r.entry.type = "int"
                                   THEN {Error("INVALID_TYPE", "expected reference")}
                                   ELSE {})]
      [] insn \in {"ifeq", "tableswitch", "lookupswitch"} ->
            LET r == FramePop(f) IN
            [f |-> r.f,
             errs |-> r.errs \cup (IF r.entry.type \notin {"int", "top"}
                                   THEN {Error("INVALID_TYPE", "expected int")}
                                   ELSE {})]
      [] insn = "ret" -> LET r == FrameGet(f, 1) IN [f |-> r.f, errs |-> r.errs]
      [] OTHER -> [f |-> f, errs |-> {}]

\* `for index, instruction in enumerate(block._instructions)`: the frame,
\* the errors and the most stack slots seen after any instruction.
RECURSIVE TraceBlock(_, _, _, _)
TraceBlock(r, block, insns, i) ==
    IF i > Len(insns) THEN r
    ELSE LET t == InsnTrace(r.f, insns[i], InstructionInBlock(block, insns[i], i - 1)) IN
         TraceBlock([f |-> t.f, errs |-> r.errs \cup t.errs,
                     peak |-> Max(r.peak, Len(t.f.stack))], block, insns, i + 1)

\* The two entries differ for _setup_edge_trace: in type, or as return
\* addresses of different sources.
EntriesDiffer(a, b) ==
    \/ a.type # b.type
    \/ (a.type = "returnAddress" /\ b.type = "returnAddress" /\ a.src # b.src)

\* The locals a constraint's exit frame wrote: `overwritten` after the walk
\* over exit_constraint.accesses.
Overwritten(accesses) ==
    { accesses[i][2] : i \in { j \in DOMAIN accesses : ~accesses[j][1] } }

\* The frame conforms to the constraint (entry, exit): `not skip`.
Conforms(constraint, frame) ==
    LET entry == constraint[1]
        exit  == constraint[2]
    IN /\ Len(entry.stack) = Len(frame.stack)
       /\ \A i \in DOMAIN entry.stack : ~EntriesDiffer(entry.stack[i], frame.stack[i])
       /\ \A index \in DOMAIN entry.locals :
            \/ index \in Overwritten(exit.accesses)
            \/ /\ index \in DOMAIN frame.locals
               /\ ~EntriesDiffer(entry.locals[index], frame.locals[index])

\* A setup that also skips jump edges.
SkipsEdgeJump(edge) == edge.cls \in {"JsrFallthroughEdge", "JumpEdge"}

\* _setup_edge_trace returns False at once for this edge.
SkipsEdge(edge) == edge.cls = "JsrFallthroughEdge"

\* checker.merge(types.throwable_t, throwable, fallback=types.throwable_t) for
\* the throwable of an exception edge, a class assignable to
\* java/lang/Throwable: the declared throwable is what is pushed.
CheckerMerge(expected, actual) == actual

\* An exception edge that is followed with the stack as it is, the throwable
\* on top of it.
SetupEdgeTraceKeepsStack(edge, frame, constraints) ==
    IF SkipsEdge(edge) THEN [go |-> FALSE, f |-> frame]
    ELSE LET f1 == IF edge.cls = "ExceptionEdge"
                   THEN [frame EXCEPT
                            !.stack = Append(@, Entry(CheckerMerge("Throwable", edge.throwable), edge))]
                   ELSE frame
         IN [go |-> ~\E c \in DOMAIN constraints : Conforms(constraints[c], f1),
             f |-> f1]

\* _setup_edge_trace(verifier, edge, frame, constraints): whether the block
\* is to be traced, and the frame it is entered with.
SetupEdgeTrace(edge, frame, constraints) ==
    IF SkipsEdge(edge) THEN [go |-> FALSE, f |-> frame]
    ELSE LET f1 == IF edge.cls = "ExceptionEdge"
                   THEN [frame EXCEPT
                            !.stack = <<Entry(CheckerMerge("Throwable", edge.throwable), edge)>>]
                   ELSE frame
         IN [go |-> ~\E c \in DOMAIN constraints : Conforms(constraints[c], f1),
             f |-> f1]

\* A resolution that reports nothing about the jsr edges of the origin.
ResolveUnreported(g, edge, frame) ==
    IF edge.cls # "RetEdge"
    THEN {[edge |-> NoEdge, key |-> NoEdge, errs |-> {Error("INVALID_EDGE", "unknown opaque edge type")}]}
    ELSE IF 1 \notin DOMAIN frame.locals
    THEN {[edge |-> NoEdge, key |-> NoEdge, errs |-> {Error("INVALID_EDGE", "no return address at local index")}]}
    ELSE IF frame.locals[1].type # "returnAddress"
    THEN {[edge |-> NoEdge, key |-> NoEdge, errs |-> {Error("INVALID_TYPE", "expected returnAddress")}]}
    ELSE
      LET falls == { e \in g.forward[frame.locals[1].src.from] : e.cls = "JsrFallthroughEdge" }
      IN IF falls = {}
         THEN {[edge |-> NoEdge, key |-> NoEdge, errs |-> {}]}
         ELSE { [edge |-> RetEdge(edge.from, fall.to), key |-> jump, errs |-> {}]
                : fall \in falls,
                  jump \in EdgeOrNone({ e \in g.forward[frame.locals[1].src.from] :
                                          e.cls = "JsrJumpEdge" }) }

\* A resolution that goes to where the jsr jumped.
ResolveToJump(g, edge, frame) ==
    IF edge.cls # "RetEdge"
    THEN {[edge |-> NoEdge, key |-> NoEdge, errs |-> {Error("INVALID_EDGE", "unknown opaque edge type")}]}
    ELSE IF 1 \notin DOMAIN frame.locals
    THEN {[edge |-> NoEdge, key |-> NoEdge, errs |-> {Error("INVALID_EDGE", "no return address at local index")}]}
    ELSE IF frame.locals[1].type # "returnAddress"
    THEN {[edge |-> NoEdge, key |-> NoEdge, errs |-> {Error("INVALID_TYPE", "expected returnAddress")}]}
    ELSE
      LET jumps == { e \in g.forward[frame.locals[1].src.from] : e.cls = "JsrJumpEdge" }
      IN IF jumps = {}
         THEN {[edge |-> NoEdge, key |-> NoEdge,
                errs |-> {Error("INVALID_BLOCK", "no jsr jump edge on block")}]}
         ELSE { [edge |-> RetEdge(edge.from, jump.to), key |-> jump, errs |-> {}] : jump \in jumps }

\* _resolve_opaque_edge(graph, verifier, subroutines, edge, frame): the
\* resolved edge (NoEdge for None), the key the edge is added under in
\* `subroutines` (the jsr jump edge of the block, NoEdge for None) and the
\* errors reported on the way.
ResolveOpaqueEdge(g, edge, frame) ==
    IF edge.cls # "RetEdge"
    THEN {[edge |-> NoEdge, key |-> NoEdge, errs |-> {Error("INVALID_EDGE", "unknown opaque edge type")}]}
    ELSE IF 1 \notin DOMAIN frame.locals
    THEN {[edge |-> NoEdge, key |-> NoEdge, errs |-> {Error("INVALID_EDGE", "no return address at local index")}]}
    ELSE IF frame.locals[1].type # "returnAddress"
    THEN {[edge |-> NoEdge, key |-> NoEdge, errs |-> {Error("INVALID_TYPE", "expected returnAddress")}]}
    ELSE
      LET origin == frame.locals[1].src.from
          jumps  == { e \in g.forward[origin] : e.cls = "JsrJumpEdge" }
          falls  == { e \in g.forward[origin] : e.cls = "JsrFallthroughEdge" }
          errs   == (IF Cardinality(jumps) > 1 \/ Cardinality(falls) > 1
                     THEN {Error("INVALID_BLOCK", "multiple jsr edges on block")} ELSE {})
                    \cup (IF jumps = {}
                          THEN {Error("INVALID_BLOCK", "no jsr jump edge on block")} ELSE {})
      IN IF falls = {}
         THEN {[edge |-> NoEdge, key |-> NoEdge,
                errs |-> errs \cup {Error("INVALID_BLOCK", "no jsr fallthrough edge on block")}]}
         ELSE { [edge |-> RetEdge(edge.from, fall.to), key |-> jump, errs |-> errs]
                : fall \in falls, jump \in EdgeOrNone(jumps) }

\* The highest local the frame holds, plus one.
LocalsHeld(f) ==
    IF DOMAIN f.locals = {} THEN 0
    ELSE 1 + CHOOSE i \in DOMAIN f.locals : \A j \in DOMAIN f.locals : j <= i

\* The body of the `while True` loop from `constraints = states.setdefault`
\* on, for an edge with a target: every way it can end. The instruction of
\* an out edge is traced for the first out edge the set yields that has one.
Visit(g, insns, constraints, edge, frame) ==
    LET block == edge.to
        su    == SetupEdgeTrace(edge, FrameCopy(frame), constraints)
        body  == TraceBlock([f |-> su.f, errs |-> {}, peak |-> Len(su.f.stack)],
                            block, insns[block], 1)
        jumps == { e \in g.forward[block] : e.insn # "" }
        ends  == IF jumps = {} THEN {body}
                 ELSE { LET t == InsnTrace(body.f, e.insn, e) IN
                        [f |-> t.f, errs |-> body.errs \cup t.errs,
                         peak |-> Max(body.peak, Len(t.f.stack))] : e \in jumps }
    IN IF ~su.go THEN {[go |-> FALSE, entry |-> su.f, exit |-> su.f, errs |-> {}, peak |-> 0]}
       ELSE { [go |-> TRUE, entry |-> FrameCopy(su.f), exit |-> r.f, errs |-> r.errs,
               peak |-> r.peak] : r \in ends }

\* The graphs the model traces, as disassemble() and the unchecked internal
\* calls build them: the out edges chosen for the entry block, block 1 and
\* block 2, at most one exception handler, and the blocks' instructions.
TraceInputs ==
    LET entryEnds ==
            { {FallthroughEdge(EntryBlock, ReturnBlock, "return")},
              {FallthroughEdge(EntryBlock, Block1, "")},
              {JumpEdge(EntryBlock, Block1, "ifeq"), FallthroughEdge(EntryBlock, Block2, "")},
              {JsrJumpEdge(EntryBlock, Block1), JsrFallthroughEdge(EntryBlock, Block2)},
              {FallthroughEdge(EntryBlock, Block1, ""), JsrFallthroughEdge(EntryBlock, Block2)},
              {JsrJumpEdge(EntryBlock, Block1)},
              {RetEdge(EntryBlock, NoneBlock)} }
        block1Ends ==
            { {}, {FallthroughEdge(Block1, ReturnBlock, "return")},
              {FallthroughEdge(Block1, Block2, "")},
              {JumpEdge(Block1, Block1, "goto")},
              {JumpEdge(Block1, Block2, "goto")},
              {JumpEdge(Block1, Block1, "ifeq"), FallthroughEdge(Block1, Block2, "")},
              {RetEdge(Block1, NoneBlock)} }
        block2Ends ==
            { {}, {FallthroughEdge(Block2, ReturnBlock, "return")},
              {FallthroughEdge(Block2, Block1, "")},
              {JumpEdge(Block2, Block1, "goto")},
              {JumpEdge(Block2, NoneBlock, "goto")},
              {RetEdge(Block2, NoneBlock)} }
        handlers ==
            { {}, {ExceptionEdge(EntryBlock, Block2, 0, "Throwable")},
              {ExceptionEdge(Block1, Block2, 0, "Throwable")} }
        entryBodies == { <<>>, <<"iconst">>, <<"iconst", "astore">> }
        otherBodies == { <<>>, <<"astore">> }
    IN { [edges |-> e0 \cup e1 \cup e2 \cup h,
          insns |-> [b \in {EntryBlock, Block1, Block2, ReturnBlock, RethrowBlock} |->
                        IF b = EntryBlock THEN i0
                        ELSE IF b = Block1 THEN i1
                        ELSE IF b = Block2 THEN i2 ELSE <<>>]]
         : e0 \in entryEnds, e1 \in block1Ends, e2 \in block2Ends, h \in handlers,
           i0 \in entryBodies, i1 \in otherBodies, i2 \in otherBodies }

\* graph._connect(edge, overwrite=False, check=False), the graph and the
\* edge evaluated once.
DConnect(g0, e0) ==
    CHOOSE r \in { (CHOOSE x \in GConnect(g, e, FALSE, FALSE) : TRUE).g :
                      g \in {g0}, e \in {e0} } : TRUE

\* graph._add(block, check=False), the graph evaluated once.
DAdd(g0, b) == CHOOSE r \in { GAdd(g, b, FALSE).g : g \in {g0} } : TRUE

\* graph._connect(edge, overwrite=False, check=False) for every edge.
RECURSIVE ConnectAll(_, _)
ConnectAll(g, edges) ==
    IF edges = {} THEN g
    ELSE LET e == CHOOSE x \in edges : TRUE IN
         ConnectAll(DConnect(g, e), edges \ {e})

\* graph._add(InsnBlock(label), check=False) for the labels, in their order.
RECURSIVE AddLabels(_, _)
AddLabels(g, labels) ==
    IF labels = {} THEN g
    ELSE LET l == CHOOSE x \in labels : \A y \in labels : x <= y IN
         AddLabels(DAdd(g, Block(IF l = 1 THEN 4 ELSE l + 4, l, "InsnBlock")), labels \ {l})

\* The graph with blocks 1 and 2 and the other blocks of the edges added
\* (graph._add(block, check=False)) and the edges connected.
TraceGraph(edges) ==
    ConnectAll(AddLabels(FreshGraph,
                         {1, 2} \cup { l \in { e.from.label : e \in edges }
                                              \cup { e.to.label : e \in edges } : l > 2 }),
               edges)

\* `to_visit = [(False, None, Frame.initial(...), [InsnEdge(None, entry)])]`
RootEdge(g) == Edge("InsnEdge", NoneBlock, g.entry, "", 0, "")

TraceInit(inputs) ==
    /\ build = "nonecheck"
    /\ graph_last = NoCall
    /\ \E in \in inputs :
        LET g == TraceGraph(in.edges) IN
        /\ blocks = g.blocks
        /\ forward_edges = g.forward
        /\ backward_edges = g.backward
        /\ opaque_edges = g.opaque
        /\ entry_block = g.entry
        /\ instructions = in.insns
        /\ to_visit = << [frame |-> InitialFrame, edges |-> {RootEdge(g)}] >>
    /\ trace_pc = "run"
    /\ traversed = <<>>
    /\ states = EmptyFn
    /\ errors = {}
    /\ max_stack = 0
    /\ max_locals = 0
    /\ peak = [stack |-> 0, locals |-> 0]
    /\ opaque_log = {}

\* `if not edges:` with nothing traversed: the loop breaks and the trace
\* is returned.
TraceFinish ==
    /\ trace_pc = "run"
    /\ to_visit[Len(to_visit)].edges = {}
    /\ traversed = <<>>
    /\ trace_pc' = "done"
    /\ UNCHANGED <<poolVars, graphVars, disasmVars, asmVars, readVars, instructions, to_visit, traversed, states,
                   errors, max_stack, max_locals, peak, opaque_log>>

\* `if not edges:` otherwise: traversed.pop(); to_visit.pop()
TraceBacktrack ==
    /\ trace_pc = "run"
    /\ to_visit[Len(to_visit)].edges = {}
    /\ traversed # <<>>
    /\ traversed' = SubSeq(traversed, 1, Len(traversed) - 1)
    /\ to_visit' = SubSeq(to_visit, 1, Len(to_visit) - 1)
    /\ UNCHANGED <<poolVars, graphVars, disasmVars, asmVars, readVars, instructions, trace_pc, states, errors,
                   max_stack, max_locals, peak, opaque_log>>

\* The return address in local 1 was pushed at a block without a jsr jump
\* edge.
Orphan(g, e, frame) ==
    /\ e.cls = "RetEdge"
    /\ 1 \in DOMAIN frame.locals
    /\ frame.locals[1].type = "returnAddress"
    /\ ~\E x \in g.forward[frame.locals[1].src.from] : x.cls = "JsrJumpEdge"

\* The deepest stack of a frame the loop is followed from. The code sets no
\* limit to it.
MaxStack == 5

\* One pass of the loop that pops the edge e (the list of edges was made from
\* a set, so any edge may be the one popped).
TraceEdge(e) ==
    /\ trace_pc = "run"
    /\ e \in to_visit[Len(to_visit)].edges
    /\ Len(to_visit[Len(to_visit)].frame.stack) <= MaxStack
    /\ LET frame  == to_visit[Len(to_visit)].frame
           tv     == [to_visit EXCEPT ![Len(to_visit)].edges = @ \ {e}]
           opaque == e.to = NoneBlock
           logged(r) == [edge |-> e, resolved |-> r.edge # NoEdge, to |-> r.edge.to,
                         key |-> r.key, errs |-> r.errs, orphan |-> Orphan(Graph, e, frame)]
       IN IF opaque /\ e \notin opaque_edges
          THEN /\ errors' = errors \cup {Error("INVALID_EDGE", "unknown opaque edge")}
               /\ to_visit' = tv
               /\ opaque_log' = opaque_log \cup
                    {[edge |-> e, resolved |-> FALSE, to |-> NoneBlock, key |-> NoEdge,
                      orphan |-> FALSE,
                      errs |-> {Error("INVALID_EDGE", "unknown opaque edge")}]}
               /\ UNCHANGED <<traversed, states, max_stack, max_locals, peak>>
          ELSE \E r \in (IF opaque THEN ResolveOpaqueEdge(Graph, e, frame)
                         ELSE {[edge |-> e, errs |-> {}]}) :
               /\ opaque_log' = IF opaque THEN opaque_log \cup {logged(r)} ELSE opaque_log
               /\ IF r.edge = NoEdge
                  THEN /\ errors' = errors \cup r.errs
                       /\ to_visit' = tv
                       /\ UNCHANGED <<traversed, states, max_stack, max_locals, peak>>
                  ELSE LET block == r.edge.to
                           st    == SetDefault(states, block, <<>>)
                       IN \E v \in Visit(Graph, instructions, st[block], r.edge, frame) :
                          IF ~v.go
                          THEN /\ states' = st
                               /\ to_visit' = tv
                               /\ errors' = errors \cup r.errs
                               /\ UNCHANGED <<traversed, max_stack, max_locals, peak>>
                          ELSE /\ states' = [st EXCEPT ![block] = Append(@, <<v.entry, v.exit>>)]
                               /\ to_visit' = Append(tv, [frame |-> FrameCopy(v.exit),
                                                          edges |-> forward_edges[block]])
                               /\ traversed' = Append(traversed, block)
                               /\ errors' = errors \cup r.errs \cup v.errs
                               /\ max_stack' = Max(max_stack, v.exit.max_stack)
                               /\ max_locals' = Max(max_locals, v.exit.max_locals)
                               /\ peak' = [stack |-> Max(peak.stack, v.peak),
                                           locals |-> Max(peak.locals, LocalsHeld(v.exit))]
    /\ UNCHANGED <<poolVars, graphVars, disasmVars, asmVars, readVars, instructions, trace_pc>>

\* A frame of its own, as Frame.initial makes it for a static method without
\* arguments, on which push and pop are called: it is kept where the loop
\* keeps the frame it works on.
FrameInit ==
    /\ instructions = EmptyFn
    /\ trace_pc = "frame"
    /\ to_visit = << [frame |-> [stack |-> <<>>, locals |-> EmptyFn, accesses |-> <<>>,
                                max_stack |-> 0, max_locals |-> 0],
                     edges |-> {}] >>
    /\ traversed = <<>>
    /\ states = EmptyFn
    /\ errors = {}
    /\ max_stack = 0
    /\ max_locals = 0
    /\ peak = [stack |-> 0, locals |-> 0]
    /\ opaque_log = {}

\* frame.push(type): peak keeps the longest the stack has been.
FramePushCall(type) ==
    /\ trace_pc = "frame"
    /\ Len(to_visit[1].frame.stack) < MaxStack
    /\ \E f \in {FramePush(to_visit[1].frame, Entry(type, NoEdge))} :
          /\ to_visit' = [to_visit EXCEPT ![1].frame = f]
          /\ peak' = [peak EXCEPT !.stack = Max(@, Len(f.stack))]
    /\ UNCHANGED <<poolVars, graphVars, disasmVars, asmVars, readVars, instructions, trace_pc,
                   traversed, states, errors, max_stack, max_locals, opaque_log>>

\* frame.pop(count): `states` keeps the call, the stack it found and left,
\* the entries it returned and the reports it made.
FramePopCall(count) ==
    /\ trace_pc = "frame"
    /\ \E r \in {IF count = 1 THEN FramePop(to_visit[1].frame)
                  ELSE FramePopCount(to_visit[1].frame, count)} :
          /\ to_visit' = [to_visit EXCEPT ![1].frame = r.f]
          /\ errors' = errors \cup r.errs
          /\ states' = [count |-> count, before |-> to_visit[1].frame.stack,
                        after |-> r.f.stack, entries |-> r.entries, reports |-> r.reports]
    /\ UNCHANGED <<poolVars, graphVars, disasmVars, asmVars, readVars, instructions, trace_pc,
                   traversed, max_stack, max_locals, peak, opaque_log>>

\* The most accesses the frame's log holds in the model.
MaxAccesses == 4

\* A frame of its own on which get and set are called.
LocalsInit ==
    /\ instructions = EmptyFn
    /\ trace_pc = "locals"
    /\ to_visit = << [frame |-> [stack |-> <<>>, locals |-> EmptyFn, accesses |-> <<>>,
                                max_stack |-> 0, max_locals |-> 0],
                     edges |-> {}] >>
    /\ traversed = <<>>
    /\ states = EmptyFn
    /\ errors = {}
    /\ max_stack = 0
    /\ max_locals = 0
    /\ peak = [stack |-> 0, locals |-> 0]
    /\ opaque_log = {}

\* frame.set(index, type): `states` keeps the call.
FrameSetCall(index, type) ==
    /\ trace_pc = "locals"
    /\ Len(to_visit[1].frame.accesses) < MaxAccesses
    /\ to_visit' = [to_visit EXCEPT ![1].frame = FrameSet(@, index, Entry(type, NoEdge))]
    /\ states' = [op |-> "set", index |-> index, known |-> index \in DOMAIN to_visit[1].frame.locals,
                  entry |-> Entry(type, NoEdge), logged |-> <<FALSE, index>>]
    /\ UNCHANGED <<poolVars, graphVars, disasmVars, asmVars, readVars, instructions, trace_pc,
                   traversed, errors, max_stack, max_locals, peak, opaque_log>>

\* frame.get(index): `states` keeps the call, the entry it returned and what
\* it added to the access log (<<>> when it added nothing).
FrameGetCall(index) ==
    /\ trace_pc = "locals"
    /\ Len(to_visit[1].frame.accesses) < MaxAccesses
    /\ \E r \in {FrameGet(to_visit[1].frame, index)} :
          /\ to_visit' = [to_visit EXCEPT ![1].frame = r.f]
          /\ errors' = errors \cup r.errs
          /\ states' = [op |-> "get", index |-> index,
                        known |-> index \in DOMAIN to_visit[1].frame.locals,
                        entry |-> r.entry,
                        logged |-> IF Len(r.f.accesses) > Len(to_visit[1].frame.accesses)
                                   THEN r.f.accesses[Len(r.f.accesses)] ELSE <<>>]
    /\ UNCHANGED <<poolVars, graphVars, disasmVars, asmVars, readVars, instructions, trace_pc,
                   traversed, max_stack, max_locals, peak, opaque_log>>

(***************************************************************************)
(*                            DISASSEMBLER                                 *)
(***************************************************************************)

\* The highest offset an instruction of the model's code is at.
MaxOffset == 2

\* An instruction: its mnemonic and, for goto, goto_w, ifeq and jsr, the absolute
\* offset it jumps to (`offset + instruction.offset`).
Insn(op, target) == [op |-> op, target |-> target]

\* A tableswitch or lookupswitch: the absolute offset of its default, and
\* those of its cases by index (tableswitch, from 0 on) or by key
\* (lookupswitch).
Switch(op, default, offsets) == [op |-> op, target |-> default, offsets |-> offsets]

IsSwitch(op) == op \in {"tableswitch", "lookupswitch"}

\* An exception table row; catch_type is "None" for a catch-all handler.
Row(start_pc, end_pc, handler_pc, catch_type) ==
    [start_pc |-> start_pc, end_pc |-> end_pc, handler_pc |-> handler_pc,
     catch_type |-> catch_type]

\* The codes disassembled: instructions at offset 0 and any of the offsets
\* up to MaxOffset (an offset without one lies inside a wider instruction),
\* jumps to any offset up to one past the last, and one of six tables.
Codes ==
    LET insns == { Insn(op, 0) : op \in {"nop", "return", "athrow", "ret"} }
                 \cup { Insn(op, t) : op \in {"goto", "ifeq", "jsr"}, t \in 0..(MaxOffset + 1) }
        tables == { <<>>,
                    << Row(0, 1, 2, "None") >>,
                    << Row(0, 2, 1, "E") >>,
                    << Row(1, 3, 0, "E") >>,
                    << Row(1, 2, 3, "None") >>,
                    << Row(0, 1, 2, "E"), Row(0, 2, 2, "None") >> }
    IN { [instructions |-> is, exception_table |-> t] :
            is \in UNION { [ofs \cup {0} -> insns] : ofs \in SUBSET (1..MaxOffset) },
            t \in tables }

\* InsnBlock(label)
InsnBlock(label) ==
    IF label = 0 THEN EntryBlock
    ELSE IF label = 1 THEN Block1
    ELSE Block(label + 4, label, "InsnBlock")

\* _find_targets_and_bounds(code): ret has no offset; a switch gives its
\* default and the offsets of its cases.
JumpTargets(c) ==
    { c.instructions[o].target :
        o \in { x \in DOMAIN c.instructions :
                  c.instructions[x].op \in {"goto", "goto_w", "ifeq", "jsr",
                                            "tableswitch", "lookupswitch"} } }
    \cup UNION { { c.instructions[o].offsets[k] : k \in DOMAIN c.instructions[o].offsets } :
                   o \in { x \in DOMAIN c.instructions : IsSwitch(c.instructions[x].op) } }

HandlerTargets(c) == { c.exception_table[i].handler_pc : i \in DOMAIN c.exception_table }

ExceptionBounds(c) ==
    { c.exception_table[i].start_pc : i \in DOMAIN c.exception_table }
    \cup { c.exception_table[i].end_pc : i \in DOMAIN c.exception_table }

\* The loop's variables: the graph, the blocks' instructions, `block`,
\* `is_new_block`, `starting` and `forward_jumps`.
Loop(g, insns, blk, new, st, fj) ==
    [g |-> g, insns |-> insns, block |-> blk, new |-> new, starting |-> st, fj |-> fj]

\* `# Is this block jumped to at any point?`: a new block is begun at offset o
\* if the current one has instructions or is the entry block.
SplitBlock(c, d, o) ==
    LET b1 == InsnBlock(d.block.label + 1) IN
    IF /\ ~d.new
       /\ (o \in DOMAIN d.fj \/ o \in JumpTargets(c) \/ o \in ExceptionBounds(c)
                             \/ o \in HandlerTargets(c))
       /\ (d.insns[d.block] # <<>> \/ d.block = d.g.entry)
    THEN Loop(DConnect(DAdd(d.g, b1), FallthroughEdge(d.block, b1, "")),
              Put(d.insns, b1, <<>>), b1, TRUE, d.starting, d.fj)
    ELSE d

\* A binding that forgets the jumps that waited for the offset.
BindForwardDrops(d, o) ==
    IF ~d.new THEN d
    ELSE Loop(d.g, d.insns, d.block, FALSE, Put(d.starting, o, d.block),
              IF o \in DOMAIN d.fj THEN Del(d.fj, o) ELSE d.fj)

\* `if is_new_block:`: the block starts at offset o, and the jumps that
\* waited for o are bound to it.
BindForward(d, o) ==
    IF ~d.new THEN d
    ELSE Loop(IF o \in DOMAIN d.fj
              THEN ConnectAll(d.g, { [e EXCEPT !.to = d.block] : e \in d.fj[o] })
              ELSE d.g,
              d.insns, d.block, FALSE, Put(d.starting, o, d.block),
              IF o \in DOMAIN d.fj THEN Del(d.fj, o) ELSE d.fj)

\* `elif instruction == instructions.tableswitch:` and `... lookupswitch:`:
\* a SwitchEdge for the default and one for every case; those whose target
\* has a block are connected, the others wait in forward_jumps.
TerminateSwitch(c, d, o) ==
    LET insn   == c.instructions[o]
        b      == d.block
        nb     == InsnBlock(d.block.label + 1)
        to(t)  == IF t \in DOMAIN d.starting THEN d.starting[t] ELSE NoneBlock
        edges  == { <<insn.target, SwitchEdgeOf(b, to(insn.target), insn.op, NoneValue)>> }
                  \cup { <<insn.offsets[k], SwitchEdgeOf(b, to(insn.offsets[k]), insn.op, k)>>
                         : k \in DOMAIN insn.offsets }
        queued == { x \in edges : x[2].to = NoneBlock }
    IN Loop(DAdd(ConnectAll(d.g, { x[2] : x \in edges \ queued }), nb),
            Put(d.insns, nb, <<>>), nb, TRUE, d.starting,
            [t \in DOMAIN d.fj \cup { x[1] : x \in queued } |->
                (IF t \in DOMAIN d.fj THEN d.fj[t] ELSE {})
                \cup { x[2] : x \in { y \in queued : y[1] = t } }])

\* The instruction at offset o is put into the block or ends it.
Terminate(c, d, o) ==
    LET op     == c.instructions[o].op
        t      == c.instructions[o].target
        b      == d.block
        nb     == InsnBlock(d.block.label + 1)
        to     == IF t \in DOMAIN d.starting THEN d.starting[t] ELSE NoneBlock
        jump   == IF op = "jsr" THEN JsrJumpEdge(b, to) ELSE JumpEdge(b, to, op)
        queued == op \in {"goto", "goto_w", "ifeq", "jsr"} /\ to = NoneBlock
        g      == CASE op = "ret" -> DAdd(DConnect(d.g, RetEdge(b, NoneBlock)), nb)
                    [] op \in {"goto", "goto_w"} ->
                         DAdd(IF queued THEN d.g ELSE DConnect(d.g, jump), nb)
                    [] op = "ifeq" ->
                         DConnect(DAdd(IF queued THEN d.g ELSE DConnect(d.g, jump), nb),
                                  FallthroughEdge(b, nb, ""))
                    [] op = "jsr" ->
                         DConnect(IF queued THEN DAdd(d.g, nb)
                                  ELSE DConnect(DAdd(d.g, nb), jump),
                                  JsrFallthroughEdge(b, nb))
                    [] op = "return" ->
                         DAdd(DConnect(d.g, FallthroughEdge(b, ReturnBlock, op)), nb)
                    [] op = "athrow" ->
                         DAdd(DConnect(d.g, FallthroughEdge(b, RethrowBlock, op)), nb)
    IN IF op \in {"nop", "nops", "iconst", "astore"}
       THEN [d EXCEPT !.insns[b] = Append(@, op)]
       ELSE IF IsSwitch(op) THEN TerminateSwitch(c, d, o)
       ELSE Loop(g, Put(d.insns, nb, <<>>), nb, TRUE, d.starting,
                 IF queued
                 THEN Put(d.fj, t, (IF t \in DOMAIN d.fj THEN d.fj[t] ELSE {}) \cup {jump})
                 ELSE d.fj)

\* One pass of `for offset in sorted(instructions_)` for the instruction at
\* offset o: the loop's variables after it, and the block the instruction
\* went to. Each stage is evaluated once.
StepInsn(c, d0, o) ==
    CHOOSE r \in { [d |-> Terminate(c, d2, o), owner |-> d2.block] :
                     d2 \in { BindForward(d1, o) : d1 \in {SplitBlock(c, d0, o)} } } : TRUE

\* `if forward_jumps:` for the edges left unbound: the raw instruction goes
\* back into its block, and a fallthrough edge to the next block is connected
\* with overwrite=True, check=True.
RECURSIVE Unbound(_, _, _)
Unbound(g, insns, edges) ==
    IF edges = {} THEN [g |-> g, insns |-> insns, exc |-> "none"]
    ELSE LET e      == CHOOSE x \in edges : TRUE
             insns1 == [insns EXCEPT ![e.from] = Append(@, e.insn)]
             to     == IF e.from.label + 1 \in DOMAIN g.blocks
                       THEN g.blocks[e.from.label + 1] ELSE NoneBlock
             r      == CHOOSE x \in GConnect(g, FallthroughEdge(e.from, to, ""), TRUE, TRUE) : TRUE
         IN IF r.exc # "none" THEN [g |-> r.g, insns |-> insns1, exc |-> r.exc]
            ELSE Unbound(r.g, insns1, edges \ {e})

\* Exception edges that take end_pc into the range.
HandlerEdgesInclusive(c, st) ==
    { ExceptionEdge(st[x[1]], st[c.exception_table[x[2]].handler_pc], x[2] - 1,
                    c.exception_table[x[2]].catch_type) :
        x \in { y \in (DOMAIN st) \X (DOMAIN c.exception_table) :
                   /\ c.exception_table[y[2]].start_pc <= y[1]
                   /\ y[1] <= c.exception_table[y[2]].end_pc
                   /\ c.exception_table[y[2]].handler_pc \in DOMAIN st } }

\* The exception edges of `for start, block in starting.items()`.
HandlerEdges(c, st) ==
    { ExceptionEdge(st[x[1]], st[c.exception_table[x[2]].handler_pc], x[2] - 1,
                    c.exception_table[x[2]].catch_type) :
        x \in { y \in (DOMAIN st) \X (DOMAIN c.exception_table) :
                   /\ c.exception_table[y[2]].start_pc <= y[1]
                   /\ y[1] < c.exception_table[y[2]].end_pc
                   /\ c.exception_table[y[2]].handler_pc \in DOMAIN st } }

\* InsnGraph.disassemble(code) up to the loop: `cls(code.parent)`.
DisasmStart(codes) ==
    /\ code \in codes
    /\ disasm_pc = "loop"
    /\ cur_offset = 0
    /\ cur_block = EntryBlock
    /\ is_new_block = FALSE
    /\ starting = EmptyFn
    /\ forward_jumps = EmptyFn
    /\ owner = EmptyFn
    /\ build \in Builds
    /\ blocks = FreshGraph.blocks
    /\ forward_edges = FreshGraph.forward
    /\ backward_edges = FreshGraph.backward
    /\ opaque_edges = FreshGraph.opaque
    /\ entry_block = FreshGraph.entry
    /\ graph_last = NoCall
    /\ instructions = [b \in {EntryBlock, ReturnBlock, RethrowBlock} |-> <<>>]
    /\ trace_pc = "idle"
    /\ to_visit = <<>>
    /\ traversed = <<>>
    /\ states = EmptyFn
    /\ errors = {}
    /\ max_stack = 0
    /\ max_locals = 0
    /\ peak = [stack |-> 0, locals |-> 0]
    /\ opaque_log = {}

DisasmInit == DisasmStart(Codes)

\* The loop body for the instruction at cur_offset.
DisasmInsn ==
    /\ disasm_pc = "loop"
    /\ \E r \in {StepInsn(code, Loop(Graph, instructions, cur_block, is_new_block,
                                     starting, forward_jumps), cur_offset)} :
       LET later == { o \in DOMAIN code.instructions : o > cur_offset }
       IN /\ SetGraph(r.d.g)
          /\ instructions' = r.d.insns
          /\ cur_block' = r.d.block
          /\ is_new_block' = r.d.new
          /\ starting' = r.d.starting
          /\ forward_jumps' = r.d.fj
          /\ owner' = Put(owner, cur_offset, r.owner)
          /\ IF later = {}
             THEN disasm_pc' = "unbound" /\ cur_offset' = cur_offset
             ELSE /\ disasm_pc' = disasm_pc
                  /\ cur_offset' = CHOOSE o \in later : \A x \in later : o <= x
    /\ UNCHANGED <<poolVars, readVars, asmVars, graph_last, traceLocals, code>>

\* `if forward_jumps:` after the loop.
DisasmUnbound ==
    /\ disasm_pc = "unbound"
    /\ \E r \in {Unbound(Graph, instructions,
                         UNION { forward_jumps[t] : t \in DOMAIN forward_jumps })} :
          /\ SetGraph(r.g)
          /\ instructions' = r.insns
          /\ disasm_pc' = IF r.exc = "none" THEN "trim" ELSE "raised"
    /\ UNCHANGED <<poolVars, readVars, asmVars, graph_last, traceLocals, code, cur_offset, cur_block,
                   is_new_block, starting, forward_jumps, owner>>

\* The final block is removed if it is empty and has no out edges.
DisasmTrim ==
    /\ disasm_pc = "trim"
    /\ IF instructions[cur_block] = <<>> /\ forward_edges[cur_block] = {}
       THEN \E r \in GRemove(Graph, cur_block, FALSE) :
              /\ SetGraph(r.g)
              /\ disasm_pc' = IF r.exc = "none" THEN "handlers" ELSE "raised"
       ELSE /\ SetGraph(Graph)
            /\ disasm_pc' = "handlers"
    /\ UNCHANGED <<poolVars, readVars, asmVars, graph_last, traceVars, code, cur_offset, cur_block,
                   is_new_block, starting, forward_jumps, owner>>

\* The exception edges are connected and disassemble() returns the graph.
DisasmHandlers ==
    /\ disasm_pc = "handlers"
    /\ \E g \in {ConnectAll(Graph, HandlerEdges(code, starting))} : SetGraph(g)
    /\ disasm_pc' = "done"
    /\ UNCHANGED <<poolVars, readVars, asmVars, graph_last, traceVars, code, cur_offset, cur_block,
                   is_new_block, starting, forward_jumps, owner>>

(***************************************************************************)
(*                              ASSEMBLER                                  *)
(***************************************************************************)

\* The depth at which the interpreter gives up a recursion of _write_block
\* that never ends (a cycle of inline blocks).
MaxDepth == 4

\* Code(method, max_stack, max_locals): no handler and no StackMapTable yet.
\* The table is the function from offsets to frames, empty for None.
NoCode == [exception_table |-> <<>>, stackmap_table |-> EmptyFn,
           instructions |-> EmptyFn, switches |-> EmptyFn]

\* Nothing is known yet of compute_frames, do_raise and the class version.
NoArgs == [compute_frames |-> FALSE, version |-> 0, do_raise |-> FALSE]

\* The largest displacement a two-byte jump is written with.
Narrow == 32767

\* instruction.get_size(offset, wide), in bytes. "nops" stands for a run
\* of Narrow - 1 nop instructions.
InsnSize(insn) ==
    CASE insn \in {"goto_w", "jsr_w"} -> 5
      [] insn = "nops" -> Narrow - 1
      [] insn \in {"goto", "ifeq", "ifne", "jsr"} -> 3
      [] insn \in {"ret", "astore"} -> 2
      [] OTHER -> 1

\* `for index, instruction in enumerate(block._instructions): ...
\* offset += instruction.get_size(offset, wide)`
RECURSIVE BodySize(_)
BodySize(insns) ==
    IF insns = <<>> THEN 0 ELSE InsnSize(Head(insns)) + BodySize(Tail(insns))

\* Error(ErrorType.INVALID_BLOCK, block, message)
BlockError(block, msg) == [type |-> "INVALID_BLOCK", src |-> block, msg |-> msg]

\* The locals of assemble() that _write_block works on, the errors it
\* reports and the exception it raises. `switches`, `code` (the switch
\* instructions of code.instructions) and `graph` (the graph as the write
\* leaves it) are set by AsmLocals.
AsmState(offset, offsets, order, jumps, exceptions, errs, exc) ==
    [offset |-> offset, offsets |-> offsets, order |-> order, jumps |-> jumps,
     exceptions |-> exceptions, errs |-> errs, exc |-> exc, temporary |-> {},
     switches |-> EmptyFn, code |-> EmptyFn, graph |-> EmptyFn]

\* What _write_block is given besides them: the graph, the instructions of
\* its blocks, the inline blocks and the edges each block's set yields last.
AsmContext(g, insns, inline, last) ==
    [g |-> g, insns |-> insns, inline |-> inline, last |-> last]

\* The out edges the loop over graph._forward_edges[block] takes for
\* fallthrough_edge, and those it takes for jump_edge.
FallthroughLike(g, block) ==
    { e \in g.forward[block] : e.cls \in {"FallthroughEdge", "JsrFallthroughEdge"} }

JumpLike(g, block) ==
    { e \in g.forward[block] : e.cls \in {"JumpEdge", "JsrJumpEdge", "RetEdge"} }

\* `previous = next(reversed(offsets))` and the goto_w written when the
\* block before does not fall through to this one.
GotoAfterPrevious(g, a, block) ==
    IF a.order = <<>> THEN a
    ELSE LET previous == a.order[Len(a.order)]
             fts == { e \in g.forward[previous] : e.cls = "FallthroughEdge" }
         IN IF fts = {} THEN a
            ELSE LET fallthrough_edge == CHOOSE e \in fts : TRUE IN
                 IF /\ ~BlockEq(fallthrough_edge.to, block)
                    /\ ~BlockEq(fallthrough_edge.to, ReturnBlock)
                    /\ ~BlockEq(fallthrough_edge.to, RethrowBlock)
                    /\ fallthrough_edge.to \notin DOMAIN a.offsets
                 THEN [a EXCEPT
                        !.jumps = Put(@, a.offset,
                                      JumpEdge(previous, fallthrough_edge.to, "goto_w")),
                        !.offset = @ + InsnSize("goto_w")]
                 ELSE a

\* `jumps.values()`: the jumps in the order they were written, which is the
\* order of their offsets.
RECURSIVE JumpsInOrder(_)
JumpsInOrder(jumps) ==
    IF DOMAIN jumps = {} THEN <<>>
    ELSE LET o == CHOOSE x \in DOMAIN jumps : \A y \in DOMAIN jumps : x <= y IN
         <<jumps[o]>> \o JumpsInOrder([x \in DOMAIN jumps \ {o} |-> jumps[x]])

\* `offsets.setdefault(block, []).append((start, offset, news))`
Written(a, block, start, offset) ==
    [a EXCEPT
        !.offset = offset,
        !.offsets = Put(@, block,
                        Append(IF block \in DOMAIN @ THEN @[block] ELSE <<>>,
                               <<start, offset>>)),
        !.order = IF block \in DOMAIN a.offsets THEN @ ELSE Append(@, block)]

\* `start` of the write of the block that was just recorded.
WriteStart(a, block) ==
    IF block \in DOMAIN a.offsets THEN a.offsets[block][Len(a.offsets[block])][1] ELSE 0

\* `offsets[block][-1] = (start, offset, news)`
SetEnd(a, block, start) ==
    [a EXCEPT !.offsets[block] = [@ EXCEPT ![Len(@)] = <<start, a.offset>>]]

\* The loop over the out edges: the exception edges are appended in the
\* order the set yields them, and more than one fallthrough or more than one
\* jump is reported.
Classify(ctx, a, block) ==
    [a EXCEPT
        !.exceptions = @ \o ctx.last[block].excs,
        !.errs = @ \cup
            (IF Cardinality(FallthroughLike(ctx.g, block)) > 1
             THEN {BlockError(block, "multiple fallthrough edges on block")} ELSE {})
            \cup
            (IF Cardinality(JumpLike(ctx.g, block)) > 1
             THEN {BlockError(block, "multiple jumps on block")} ELSE {})]

IsConditional(insn) == insn \in {"ifeq", "ifne"}

\* "Check if we can remove the jump altogether (due to inline blocks)"
Inlineable(ctx, jump_edge) ==
    /\ jump_edge # NoEdge
    /\ ~IsConditional(jump_edge.insn)
    /\ jump_edge.to # NoneBlock
    /\ jump_edge.to \in ctx.inline
    /\ Cardinality(ctx.g.forward[jump_edge.to]) <= 1

\* `min(map(lambda item: item[0], offsets_), key=lambda offset_: offset - offset_)`:
\* the last of the starts of the block, all of them before `offset`.
NearestStart(a, to) ==
    CHOOSE x \in { a.offsets[to][i][1] : i \in DOMAIN a.offsets[to] } :
        \A i \in DOMAIN a.offsets[to] : a.offsets[to][i][1] <= x

\* `offsets_ is not None and delta <= -32768 and jump_instruction != goto_w`
TooFarBack(a, jump_edge) ==
    /\ jump_edge.to \in DOMAIN a.offsets
    /\ NearestStart(a, jump_edge.to) - a.offset <= -(Narrow + 1)
    /\ jump_edge.insn # "goto_w"

\* The edge `jumps` gets: the jump edge, or a new JumpEdge with the wide
\* variant of an unconditional jump that is too far back.
WideJump(a, block, jump_edge) ==
    IF TooFarBack(a, jump_edge)
    THEN JumpEdge(block, jump_edge.to, IF jump_edge.insn = "jsr" THEN "jsr_w" ELSE "goto_w")
    ELSE jump_edge

\* The jump instruction is written and noted in `jumps`.
EmitJump(a, block, start, jump_edge) ==
    IF jump_edge = NoEdge THEN a
    ELSE SetEnd([a EXCEPT !.jumps = Put(@, a.offset, jump_edge),
                          !.offset = @ + InsnSize(jump_edge.insn)], block, start)

\* The checks after the jump is written, those of a jsr alone.
PairingErrorsJsrOnly(block, jump_edge, is_conditional, fallthrough_edge) ==
    IF jump_edge.cls = "JsrJumpEdge" /\ fallthrough_edge.cls # "JsrFallthroughEdge"
    THEN {BlockError(block, "jsr jump edge with no jsr fallthrough edge on block")}
    ELSE {}

\* The checks after the jump is written; jump_edge is None where there is no
\* jump edge and where the jump was inlined.
PairingErrors(block, jump_edge, is_conditional, fallthrough_edge) ==
    IF jump_edge.cls = "JsrJumpEdge"
    THEN IF fallthrough_edge.cls # "JsrFallthroughEdge"
         THEN {BlockError(block, "jsr jump edge with no jsr fallthrough edge on block")}
         ELSE {}
    ELSE IF is_conditional /\ fallthrough_edge = NoEdge
    THEN {BlockError(block, "conditional jump edge with no fallthrough edge on block")}
    ELSE IF ~is_conditional /\ fallthrough_edge # NoEdge
    THEN {BlockError(block, "unconditional jump edge with a fallthrough edge on block")}
    ELSE {}

\* switch_instruction.get_size(offset, wide): the opcode, the padding that
\* brings the operands to a multiple of four, then default, low and high
\* and four bytes a case (tableswitch), or default, npairs and eight bytes
\* a pair (lookupswitch).
SwitchSize(op, n, offset) ==
    1 + ((4 - ((offset + 1) % 4)) % 4)
      + (IF op = "tableswitch" THEN 12 + 4 * n ELSE 8 + 8 * n)

\* The switch instruction as _write_block writes it: a copy without a
\* default (<<>> for None), with a dummy offset for every edge of a case.
WrittenSwitch(op, cases) ==
    [op |-> op, default |-> <<>>,
     offsets |-> [k \in (IF op = "tableswitch" THEN 0..(Cardinality(cases) - 1)
                          ELSE { e.value : e \in cases }) |-> 0]]

\* `elif switch_edges:` of _write_block: the switch instruction is written
\* and its edges are noted in `switches`. The switch edges of a block of the
\* model are those of one instruction.
SwitchStage(ctx, a, block, start) ==
    LET switch_edges == { e \in ctx.g.forward[block] : e.cls = "SwitchEdge" }
        op == (CHOOSE e \in switch_edges : TRUE).insn
        w  == WrittenSwitch(op, { e \in switch_edges : e.value # NoneValue })
    IN IF switch_edges = {} THEN a
       ELSE SetEnd([a EXCEPT !.switches = Put(@, a.offset, switch_edges),
                             !.code = Put(@, a.offset, w),
                             !.offset = @ + SwitchSize(op, Cardinality(DOMAIN w.offsets), a.offset)],
                   block, start)

RECURSIVE WriteBlock(_, _, _, _, _)

\* The jump written at offset o is taken to be out of reach of a block that
\* ends at `offset`.
Stale(a, offset, o) ==
    ~(\/ offset - o <= Narrow
      \/ a.jumps[o].to \in DOMAIN a.offsets
      \/ a.jumps[o].insn = "goto_w")

\* The first jump, in the order of `jumps.items()`, that is out of reach
\* of a block ending at a.offset; -1 when there is none.
FirstStale(a) ==
    LET stale == { o \in DOMAIN a.jumps : Stale(a, a.offset, o) } IN
    IF stale = {} THEN -1 ELSE CHOOSE o \in stale : \A x \in stale : o <= x

\* The loop that shifts a block, from the first jump out of reach on:
\* `intermediary = InsnBlock(65336 - len(temporary))`,
\* `graph.jump(intermediary, edge.to, instructions.goto_w)`, the jump
\* redirected to the intermediary block, and _write_block on that block: a
\* block without instructions, after a goto_w if the block before falls
\* through elsewhere. Its own loop runs at an offset no smaller, where the
\* redirected jump is out of reach again and its new target not written
\* yet: one more intermediary block is made for it, and so on until the
\* stack runs out.
RECURSIVE Shift(_, _, _)
Shift(g, a, depth) ==
    IF depth > MaxDepth THEN [a EXCEPT !.exc = "RecursionError"]
    ELSE IF a.offset < Narrow + 1 \/ FirstStale(a) = -1 THEN a
    ELSE LET o == FirstStale(a)
             edge == a.jumps[o]
             intermediary == InsnBlock(65336 - Cardinality(a.temporary))
             r == CHOOSE x \in GConnect(g, JumpEdge(intermediary, edge.to, "goto_w"),
                                        TRUE, TRUE) : TRUE
         IN IF r.exc # "none" THEN [a EXCEPT !.exc = r.exc, !.graph = r.g]
            ELSE Shift(r.g,
                       GotoAfterPrevious(r.g,
                            [a EXCEPT !.temporary = @ \cup {intermediary},
                                      !.graph = r.g,
                                      !.jumps[o] = JumpEdge(edge.from, intermediary, edge.insn)],
                            intermediary),
                       depth + 1)

\* `while not shifted:` of _write_block and the write of the instructions:
\* below offset 32768, or with every jump in reach, the block is written
\* where it starts. No block holds a jump, return or athrow instruction of
\* its own.
WriteBody(g, a, block, insns, depth) ==
    CHOOSE r \in { IF s.exc # "none" THEN s ELSE Written(a, block, a.offset, s.offset)
                   : s \in { Shift(g, x, depth)
                   : x \in { [a EXCEPT !.offset = @ + BodySize(insns)] } } } : TRUE

\* _write_block(..., inline=True) on the target of an edge, then
\* `inlined[edge] = offsets[edge.to][-1][:-1]`.
InlineWrite(ctx, a, to, depth) ==
    CHOOSE r \in { IF w.exc # "none" THEN w
                   ELSE IF to \notin DOMAIN w.offsets THEN [w EXCEPT !.exc = "KeyError"]
                   ELSE w
                   : w \in {WriteBlock(ctx, a, to, TRUE, depth + 1)} } : TRUE

\* `if jump_edge is not None:` of _write_block.
JumpStage(ctx, a, block, start, depth) ==
    LET jump_edge == ctx.last[block].jump
        fallthrough_edge == ctx.last[block].ft
    IN IF a.exc # "none" THEN a
       ELSE IF jump_edge = NoEdge THEN SwitchStage(ctx, a, block, start)
       ELSE CHOOSE r \in
            { IF a2.exc # "none" THEN a2
              ELSE [a2 EXCEPT !.errs = @ \cup
                        PairingErrors(block,
                                      IF Inlineable(ctx, jump_edge) THEN NoEdge
                                      ELSE WideJump(a, block, jump_edge),
                                      IsConditional(jump_edge.insn), fallthrough_edge)]
              : a2 \in { IF Inlineable(ctx, jump_edge)
                         THEN InlineWrite(ctx, a, jump_edge.to, depth)
                         ELSE IF TooFarBack(a, jump_edge) /\ IsConditional(jump_edge.insn)
                         THEN [a EXCEPT !.exc = "NotImplementedError"]
                         ELSE EmitJump(a, block, start, WideJump(a, block, jump_edge)) } } : TRUE

\* `if not has_out_edges and block != graph.return_block and ...`
NoOutEdges(ctx, a, block) ==
    IF /\ a.exc = "none"
       /\ FallthroughLike(ctx.g, block) \cup JumpLike(ctx.g, block) = {}
       /\ \A e \in ctx.g.forward[block] : e.cls # "SwitchEdge"
       /\ ~BlockEq(block, ReturnBlock) /\ ~BlockEq(block, RethrowBlock)
    THEN [a EXCEPT !.errs = @ \cup {BlockError(block, "block has no out edges")}]
    ELSE a

\* `if fallthrough_edge is not None:` of _write_block.
FallthroughStage(ctx, a, block, start, depth) ==
    LET fallthrough_edge == ctx.last[block].ft IN
    IF a.exc # "none" \/ fallthrough_edge = NoEdge THEN a
    ELSE IF \/ BlockEq(fallthrough_edge.to, ReturnBlock)
            \/ BlockEq(fallthrough_edge.to, RethrowBlock)
    THEN SetEnd([a EXCEPT !.offset = @ + InsnSize(fallthrough_edge.insn)], block, start)
    ELSE IF fallthrough_edge.to \in ctx.inline /\ ~BlockEq(fallthrough_edge.to, block)
    THEN InlineWrite(ctx, a, fallthrough_edge.to, depth)
    ELSE IF fallthrough_edge.to \in DOMAIN a.offsets
    THEN LET goto_instruction ==
                IF NearestStart(a, fallthrough_edge.to) - a.offset >= -Narrow
                THEN "goto" ELSE "goto_w"
         IN [a EXCEPT !.jumps = Put(@, a.offset,
                                    JumpEdge(block, fallthrough_edge.to, goto_instruction)),
                      !.offset = @ + InsnSize(goto_instruction)]
    ELSE a

\* _write_block after the block's instructions are written, `start` being
\* where they begin.
WriteEdges(ctx, a1, block, start, depth) ==
    CHOOSE r \in
        { FallthroughStage(ctx, a3, block, start, depth)
          : a3 \in { NoOutEdges(ctx, a2, block)
          : a2 \in { JumpStage(ctx, a1, block, start, depth) } } } : TRUE

\* _write_block from `start = offset` on.
WriteRest(ctx, a0, block, depth) ==
    CHOOSE r \in
        { IF w.exc # "none" THEN w
          ELSE CHOOSE x \in { WriteEdges(ctx, a1, block, start, depth)
                              : a1 \in {Classify(ctx, w, block)},
                                start \in {WriteStart(w, block)} } : TRUE
          : w \in { WriteBody(ctx.g, a0, block, ctx.insns[block], depth) } } : TRUE

\* _write_block(graph, verifier, offset, block, ..., inline)
WriteBlock(ctx, a, block, inline, depth) ==
    IF a.exc # "none" THEN a
    ELSE IF depth > MaxDepth THEN [a EXCEPT !.exc = "RecursionError"]
    ELSE IF block \in DOMAIN a.offsets /\ ~(inline /\ block \in ctx.inline) THEN a
    ELSE IF ctx.insns[block] = <<>>
            /\ (block \notin DOMAIN ctx.g.forward \/ ctx.g.forward[block] = {}) THEN a
    ELSE CHOOSE r \in { WriteRest(ctx, a0, block, depth)
                        : a0 \in {GotoAfterPrevious(ctx.g, a, block)} } : TRUE

\* `sorted(self._blocks)`
RECURSIVE SortedSeq(_)
SortedSeq(S) ==
    IF S = {} THEN <<>>
    ELSE LET m == CHOOSE x \in S : \A y \in S : x <= y IN
         <<m>> \o SortedSeq(S \ {m})

\* The labels in the order of `self._blocks.values()`: Graph.__init__ adds the
\* entry, return and rethrow blocks, and the other blocks are added in the
\* order of their labels.
InsertionOrder(g) ==
    SelectSeq(<<0, -1, -2>>, LAMBDA l : l \in DOMAIN g.blocks)
        \o SortedSeq(DOMAIN g.blocks \ {0, -1, -2})


\* The lists that hold every element of S once.
Orders(S) ==
    { q \in [1..Cardinality(S) -> S] : \A i, j \in DOMAIN q : i # j => q[i] # q[j] }

\* The loop over a block's out edges keeps the last fallthrough-like and the
\* last jump-like edge the set yields, and appends the exception edges as it
\* comes to them: any order, the same one whenever the block is written.
RECURSIVE LastPicks(_, _)
LastPicks(g, bs) ==
    IF bs = {} THEN {EmptyFn}
    ELSE LET b == CHOOSE x \in bs : TRUE IN
         { Put(f, b, [ft |-> x, jump |-> y, excs |-> z])
           : f \in LastPicks(g, bs \ {b}),
             x \in EdgeOrNone(FallthroughLike(g, b)),
             y \in EdgeOrNone(JumpLike(g, b)),
             z \in Orders({ e \in g.forward[b] : e.cls = "ExceptionEdge" }) }

\* The locals of assemble() between two calls of _write_block.
AsmLocals ==
    [AsmState(asm_offset, asm_offsets, asm_order, asm_jumps, asm_exceptions, {}, "none")
        EXCEPT !.switches = asm_code.switches, !.code = asm_code.instructions,
               !.graph = Graph]

SetAsm(a, pc, todo) ==
    /\ asm_offset' = a.offset
    /\ asm_offsets' = a.offsets
    /\ asm_order' = a.order
    /\ asm_jumps' = a.jumps
    /\ asm_exceptions' = a.exceptions
    /\ asm_code' = [asm_code EXCEPT !.switches = a.switches, !.instructions = a.code]
    /\ blocks' = a.graph.blocks
    /\ forward_edges' = a.graph.forward
    /\ backward_edges' = a.graph.backward
    /\ opaque_edges' = a.graph.opaque
    /\ errors' = errors \cup a.errs
    /\ asm_exc' = a.exc
    /\ asm_pc' = IF a.exc # "none" THEN "raised" ELSE pc
    /\ asm_todo' = todo

\* assemble() once Trace.from_graph has returned, up to the first loop: the
\* entry block is written "first, no matter what".
AssembleBegin(remove_dead, do_raise) ==
    /\ trace_pc = "done"
    /\ asm_pc = "idle"
    /\ remove_dead_blocks' = remove_dead
    /\ asm_args' = [asm_args EXCEPT !.do_raise = do_raise]
    /\ \E last \in LastPicks(Graph, DOMAIN forward_edges) :
        /\ asm_last' = last
        /\ \E a \in {WriteBlock(AsmContext(Graph, instructions, inline_blocks, last),
                                AsmLocals, entry_block, FALSE, 0)} :
              SetAsm(a, "blocks", SortedSeq(DOMAIN blocks))
    /\ UNCHANGED <<poolVars, build, entry_block, graph_last, disasmVars, readVars, inline_blocks, asm_dead,
                   asm_handlers, instructions, trace_pc, to_visit, traversed, states, max_stack,
                   max_locals, peak, opaque_log>>

\* One pass of `for label in sorted(self._blocks):`
AssembleBlock ==
    /\ asm_pc = "blocks"
    /\ asm_todo # <<>>
    /\ LET block == blocks[Head(asm_todo)]
           last  == Tail(asm_todo) = <<>>
           pc    == IF last THEN "force" ELSE "blocks"
           todo  == IF last THEN InsertionOrder(Graph) ELSE Tail(asm_todo)
       IN IF block \in DOMAIN asm_offsets
          THEN SetAsm(AsmLocals, pc, todo) /\ UNCHANGED asm_dead
          ELSE IF remove_dead_blocks /\ block \notin DOMAIN states
          THEN SetAsm(AsmLocals, pc, todo) /\ asm_dead' = asm_dead \cup {block}
          ELSE /\ \E a \in {WriteBlock(AsmContext(Graph, instructions, inline_blocks, asm_last),
                                       AsmLocals, block, FALSE, 0)} :
                    SetAsm(a, pc, todo)
               /\ UNCHANGED asm_dead
    /\ UNCHANGED <<poolVars, build, entry_block, graph_last, disasmVars, readVars, inline_blocks,
                   remove_dead_blocks, asm_last, asm_handlers, asm_args,
                   instructions, trace_pc, to_visit, traversed, states, max_stack,
                   max_locals, peak, opaque_log>>

\* One pass of `for block in self._blocks.values():`, the forced write of an
\* inline block that a jump or a handler refers to. After the last pass the
\* jumps are adjusted and the frames computed, which writes no block and
\* reports no error for a block.
AssembleForce ==
    /\ asm_pc = "force"
    /\ asm_todo # <<>>
    /\ LET block == blocks[Head(asm_todo)]
           pc    == IF Tail(asm_todo) = <<>> THEN "adjust" ELSE "force"
           refs  == { asm_jumps[o] : o \in DOMAIN asm_jumps }
                        \cup UNION { asm_code.switches[o] : o \in DOMAIN asm_code.switches }
                        \cup { asm_exceptions[i] : i \in DOMAIN asm_exceptions }
       IN IF block \notin inline_blocks \/ block \in DOMAIN asm_offsets
             \/ ~\E edge \in refs : BlockEq(edge.to, block)
          THEN SetAsm(AsmLocals, pc, Tail(asm_todo))
          ELSE \E a \in {WriteBlock(AsmContext(Graph, instructions, inline_blocks, asm_last),
                                    AsmLocals, block, FALSE, 0)} :
                    SetAsm(a, pc, Tail(asm_todo))
    /\ UNCHANGED <<poolVars, build, entry_block, graph_last, disasmVars, readVars, inline_blocks,
                   remove_dead_blocks, asm_last, asm_dead, asm_handlers, asm_args,
                   instructions, trace_pc, to_visit, traversed, states, max_stack,
                   max_locals, peak, opaque_log>>

\* Error(ErrorType.INVALID_EDGE, edge, message)
EdgeError(edge, msg) == [type |-> "INVALID_EDGE", src |-> edge, msg |-> msg]

\* The first loop of _adjust_jumps_and_add_exception_handlers: a jump whose
\* offset is not computed yet and whose target was never written is
\* reported. The goto written for a fallthrough to a block already written
\* carries its offset, and its target is written.
AdjustErrors(jumps, offsets) ==
    { EdgeError(jumps[o], "jump edge to unknown block") :
        o \in { x \in DOMAIN jumps :
                  /\ jumps[x].to # NoneBlock
                  /\ jumps[x].to \notin DOMAIN offsets } }

\* `min(map(lambda item: item[0], offsets[edge.to]), key=lambda offset_:
\* abs(offset - offset_))`: the start nearest to the instruction at offset o.
StartNearest(offsets, to, o) ==
    CHOOSE x \in { offsets[to][i][1] : i \in DOMAIN offsets[to] } :
        \A i \in DOMAIN offsets[to] :
            (IF x >= o THEN x - o ELSE o - x)
                <= (IF offsets[to][i][1] >= o THEN offsets[to][i][1] - o ELSE o - offsets[to][i][1])

\* An adjustment that leaves the dummy offsets of the cases as they are.
AdjustSwitchDefaultOnly(insn, o, edges, offsets) ==
    LET known == { e \in edges : e.to \in DOMAIN offsets /\ e.value = NoneValue } IN
    [insn |-> [insn EXCEPT !.default =
                    IF known = {} THEN @
                    ELSE << StartNearest(offsets, (CHOOSE e \in known : TRUE).to, o) - o >>],
     exc |-> "none"]

\* `for switch_edge in switch_edges:` for the instruction at offset o: an
\* edge to a block that was not known is skipped, the default's edge
\* sets instruction.default and a case's edge instruction.offsets[value],
\* which a tableswitch has for the indexes of its dummy offsets only. The
\* edges of the model's switches differ in their values.
AdjustSwitch(insn, o, edges, offsets) ==
    LET known  == { e \in edges : e.to \in DOMAIN offsets }
        edge_of(k)  == CHOOSE e \in known : e.value = k
        values   == { e.value : e \in known } \ {NoneValue}
    IN [insn |-> [insn EXCEPT
                    !.default = IF \E e \in known : e.value = NoneValue
                                THEN << StartNearest(offsets, edge_of(NoneValue).to, o) - o >>
                                ELSE @,
                    !.offsets = [k \in DOMAIN @ \cup values |->
                                    IF k \in values
                                    THEN StartNearest(offsets, edge_of(k).to, o) - o
                                    ELSE @[k]]],
        exc |-> IF insn.op = "tableswitch" /\ ~(values \subseteq DOMAIN insn.offsets)
                THEN "IndexError" ELSE "none"]

\* The second loop of _adjust_jumps_and_add_exception_handlers: the switch
\* instructions after it, the errors it reports and the exception it raises.
AdjustSwitches(insns, switches, offsets) ==
    [insns |-> [o \in DOMAIN insns |->
                    IF o \in DOMAIN switches
                    THEN AdjustSwitch(insns[o], o, switches[o], offsets).insn ELSE insns[o]],
     errs |-> { EdgeError(e, "switch edge to unknown block") :
                  e \in { x \in UNION { switches[o] : o \in DOMAIN switches } :
                            x.to \notin DOMAIN offsets } },
     exc |-> IF \E o \in DOMAIN switches :
                    AdjustSwitch(insns[o], o, switches[o], offsets).exc # "none"
             THEN "IndexError" ELSE "none"]

\* The handlers in the order they were collected.
SortedByPriorityUnsorted(q) == q

\* `sorted(exceptions, key=lambda edge: edge.priority)`: the sort is stable.
SortedByPriority(q) ==
    LET p == CHOOSE f \in Orders(DOMAIN q) :
                \A i, j \in DOMAIN q :
                    i < j => \/ q[f[i]].value < q[f[j]].value
                             \/ q[f[i]].value = q[f[j]].value /\ f[i] < f[j]
    IN [i \in DOMAIN q |-> q[p[i]]]

\* The rows `for start, end, _ in offsets[exception_edge.from_]` appends for
\* one edge, from the i-th write of its block on. No edge of the model has
\* inline_coverage set.
RECURSIVE RowsOfEdge(_, _, _)
RowsOfEdge(edge, offsets, i) ==
    IF i > Len(offsets[edge.from]) THEN <<>>
    ELSE << Row(offsets[edge.from][i][1], offsets[edge.from][i][2],
                offsets[edge.to][1][1], edge.throwable) >>
         \o RowsOfEdge(edge, offsets, i + 1)

\* The table so far, the edge of every row, the errors reported and the
\* exception raised.
Handlers(rows, edges, errs, exc) ==
    [rows |-> rows, edges |-> edges, errs |-> errs, exc |-> exc]

\* The loop over the sorted exception edges. `offsets[exception_edge.to]`
\* raises KeyError for a handler block that was never written.
RECURSIVE AddHandlers(_, _, _)
AddHandlers(q, offsets, h) ==
    IF q = <<>> \/ h.exc # "none" THEN h
    ELSE LET edge == Head(q) IN
         IF edge.to \notin DOMAIN offsets
         THEN [h EXCEPT !.exc = "KeyError"]
         ELSE AddHandlers(Tail(q), offsets,
                Handlers(h.rows \o RowsOfEdge(edge, offsets, 1),
                         h.edges \o [i \in 1..Len(offsets[edge.from]) |-> edge],
                         h.errs \cup (IF Len(offsets[edge.to]) > 1
                                      THEN {EdgeError(edge, "multiple exception handler targets")}
                                      ELSE {}),
                         "none"))

\* `temporary`: the intermediary blocks of the graph, InsnBlock(65336 - n).
Temporary(g) ==
    { g.blocks[l] : l \in { x \in DOMAIN g.blocks : x > 65336 - MaxDepth - 2 } }

\* `for block in temporary: self.remove(block)`, in any order, up to the
\* first exception.
RECURSIVE RemoveTemporary(_, _)
RemoveTemporary(g, temporary) ==
    IF temporary = {} THEN {Outcome(g, "none")}
    ELSE UNION { UNION { IF r.exc # "none" THEN {r}
                         ELSE RemoveTemporary(r.g, temporary \ {block})
                         : r \in GRemove(g, block, TRUE) }
                 : block \in temporary }

\* The temporary blocks are removed, then
\* _adjust_jumps_and_add_exception_handlers. _simplify_exception_ranges does
\* nothing.
AssembleAdjust ==
    /\ asm_pc = "adjust"
    /\ \E rm \in RemoveTemporary(Graph, Temporary(Graph)) :
       \E sw \in {AdjustSwitches(asm_code.instructions, asm_code.switches, asm_offsets)} :
       \E h \in {AddHandlers(SortedByPriority(asm_exceptions), asm_offsets,
                             Handlers(<<>>, <<>>,
                                      AdjustErrors(asm_jumps, asm_offsets) \cup sw.errs,
                                      IF rm.exc # "none" THEN rm.exc ELSE sw.exc))} :
        /\ blocks' = rm.g.blocks
        /\ forward_edges' = rm.g.forward
        /\ backward_edges' = rm.g.backward
        /\ opaque_edges' = rm.g.opaque
        /\ errors' = errors \cup h.errs
        /\ asm_code' = [asm_code EXCEPT !.exception_table = h.rows, !.instructions = sw.insns]
        /\ asm_handlers' = h.edges
        /\ asm_exc' = h.exc
        /\ asm_pc' = IF h.exc # "none" THEN "raised" ELSE "frames"
    /\ UNCHANGED <<poolVars, build, entry_block, graph_last, disasmVars, readVars, inline_blocks,
                   remove_dead_blocks, asm_todo, asm_offset, asm_offsets, asm_order,
                   asm_jumps, asm_exceptions, asm_dead, asm_last, asm_args,
                   instructions, trace_pc, to_visit, traversed, states, max_stack,
                   max_locals, peak, opaque_log>>

\* StackMapTable.since, the first version with stack-map frames: 50.0.
StackMapTableSince == 50

\* The versions of the class the method is in: 49.0, 50.0 and 51.0.
ClassVersions == {49, 50, 51}

\* Error(ErrorType.INVALID_STACK_MERGE, edge, message)
MergeError(edge, msg) == [type |-> "INVALID_STACK_MERGE", src |-> edge, msg |-> msg]

\* The writes of the dead blocks that were written all the same.
DeadWrites(dead, offsets) ==
    UNION { { offsets[b][i] : i \in DOMAIN offsets[b] } : b \in dead \cap DOMAIN offsets }

\* `jumps` after `jumps.pop(offset, None)` for the offsets of the dead
\* blocks: `while offset < last` with `last = end - 1`.
LiveJumps(jumps, dead, offsets) ==
    [o \in { x \in DOMAIN jumps :
               ~\E w \in DeadWrites(dead, offsets) : w[1] <= x /\ x < w[2] - 1 }
        |-> jumps[o]]

\* A merge that reports the deeper stacks alone.
StackMergeErrorsOverrunOnly(edge, frames) ==
    { MergeError(edge, "stack overrun")
      : i \in { j \in DOMAIN frames : Len(frames[j][1].stack) > Len(frames[1][1].stack) } }

\* The errors of merging the entry frames recorded for a block: the first
\* one is the base, every other one is compared with it in depth.
StackMergeErrors(edge, frames) ==
    { MergeError(edge, IF Len(frames[i][1].stack) > Len(frames[1][1].stack)
                       THEN "stack overrun" ELSE "stack underrun")
      : i \in { j \in DOMAIN frames : Len(frames[j][1].stack) # Len(frames[1][1].stack) } }

\* The frames so far (offset -> block and stack depth of the merged frame),
\* the blocks merged, the errors reported and the exception raised.
Merged(frames, visited, errs, exc) ==
    [frames |-> frames, visited |-> visited, errs |-> errs, exc |-> exc]

\* The frame written at every offset the block starts at.
RECURSIVE FramesAt(_, _, _, _)
FramesAt(frames, starts, block, depth) ==
    IF starts = <<>> THEN frames
    ELSE FramesAt(Put(frames, Head(starts)[1], [block |-> block, depth |-> depth]),
                  Tail(starts), block, depth)

\* The loop over the targets of jumps and handlers. No edge in `jumps` or
\* `exceptions` is a key of `inlined`: an inlined jump is not written and a
\* fallthrough edge equals no jump edge. trace.frames[block] raises KeyError
\* for a block that was written and never traced; a block trace.frames holds
\* without a frame leaves `base` None, which is read later on.
RECURSIVE MergeFrames(_, _, _, _)
MergeFrames(q, offsets, frames, m) ==
    IF q = <<>> \/ m.exc # "none" THEN m
    ELSE LET edge  == Head(q)
             block == edge.to
         IN IF block = NoneBlock \/ block \notin DOMAIN offsets \/ block \in m.visited
            THEN MergeFrames(Tail(q), offsets, frames, m)
            ELSE IF block \notin DOMAIN frames
            THEN [m EXCEPT !.exc = "KeyError"]
            ELSE IF frames[block] = <<>>
            THEN [m EXCEPT !.exc = "NoneFrame"]
            ELSE MergeFrames(Tail(q), offsets, frames,
                    Merged(FramesAt(m.frames, offsets[block], block,
                                    Len(frames[block][1][1].stack)),
                           m.visited \cup {block},
                           m.errs \cup StackMergeErrors(edge, frames[block]),
                           "none"))

\* The frame of a dead block that was written: a throwable on the stack.
DeadFrames(dead, offsets) ==
    [o \in { w[1] : w \in DeadWrites(dead, offsets) } |->
        [block |-> CHOOSE b \in dead \cap DOMAIN offsets :
                        \E i \in DOMAIN offsets[b] : offsets[b][i][1] = o,
         depth |-> 1]]

\* _nop_out_dead_blocks_and_compute_frames: the table's frames (none when
\* no table is set), the errors and the exception.
ComputeFrames(dead, jumps, exceptions, offsets, frames) ==
    LET live == LiveJumps(jumps, dead, offsets)
        none == [table |-> EmptyFn, errs |-> {}, exc |-> "none"]
    IN IF dead = {} /\ DOMAIN jumps = {} /\ exceptions = <<>> THEN none
       ELSE IF \E o \in DOMAIN live : live[o].cls = "JsrJumpEdge" THEN none
       ELSE LET m == MergeFrames(JumpsInOrder(live) \o exceptions, offsets, frames,
                                 Merged(DeadFrames(dead, offsets), {}, {}, "none"))
            IN [table |-> IF m.exc # "none" THEN EmptyFn ELSE m.frames,
                errs |-> m.errs, exc |-> m.exc]

\* `if compute_frames:` of assemble(), with the check of the class version
\* it starts with. An attribute of the None frame is read without a check:
\* the build either raises or goes on with whatever it finds.
AssembleFrames(compute_frames, class_version) ==
    /\ asm_pc = "frames"
    /\ asm_args' = [asm_args EXCEPT !.compute_frames = compute_frames,
                                    !.version = class_version]
    /\ IF ~compute_frames \/ class_version < StackMapTableSince
       THEN /\ asm_pc' = "finish"
            /\ UNCHANGED <<asm_code, asm_exc, errors>>
       ELSE \E r \in {ComputeFrames(asm_dead, asm_jumps, asm_exceptions, asm_offsets, states)} :
            /\ errors' = errors \cup r.errs
            /\ asm_code' = [asm_code EXCEPT !.stackmap_table = r.table]
            /\ \/ /\ r.exc = "none"
                  /\ asm_pc' = "finish"
                  /\ UNCHANGED asm_exc
               \/ /\ r.exc = "KeyError"
                  /\ asm_pc' = "raised"
                  /\ asm_exc' = "KeyError"
               \/ /\ r.exc = "NoneFrame"
                  /\ asm_pc' = "raised"
                  /\ asm_exc' \in {"AttributeError", "undefined"}
    /\ UNCHANGED <<poolVars, graphVars, disasmVars, readVars, inline_blocks,
                   remove_dead_blocks, asm_todo, asm_offset, asm_offsets, asm_order,
                   asm_jumps, asm_exceptions, asm_dead, asm_last, asm_handlers,
                   instructions, trace_pc, to_visit, traversed, states, max_stack,
                   max_locals, peak, opaque_log>>

\* verifier.report() keeps the errors in verifier._errors and raise_()
\* raises them as one VerifyError.
\* `if do_raise and verifier._errors: verifier.raise_()`, then `return code`.
AssembleFinish ==
    /\ asm_pc = "finish"
    /\ IF asm_args.do_raise /\ errors # {}
       THEN asm_pc' = "raised" /\ asm_exc' = "VerifyError"
       ELSE asm_pc' = "done" /\ UNCHANGED asm_exc
    /\ UNCHANGED <<poolVars, graphVars, disasmVars, readVars, inline_blocks,
                   remove_dead_blocks, asm_todo, asm_offset, asm_offsets, asm_order,
                   asm_jumps, asm_exceptions, asm_dead, asm_last, asm_handlers, asm_code,
                   asm_args, instructions, trace_pc, to_visit, traversed, states, errors, max_stack,
                   max_locals, peak, opaque_log>>

(***************************************************************************)
(*                           SPECIFICATIONS                                *)
(***************************************************************************)

\* The locals of assemble() before it runs.
AsmLocalsIdle ==
    /\ remove_dead_blocks = TRUE
    /\ asm_pc = "idle"
    /\ asm_todo = <<>>
    /\ asm_offset = 0
    /\ asm_offsets = EmptyFn
    /\ asm_order = <<>>
    /\ asm_jumps = EmptyFn
    /\ asm_exceptions = <<>>
    /\ asm_dead = {}
    /\ asm_last = EmptyFn
    /\ asm_exc = "none"
    /\ asm_code = NoCode
    /\ asm_handlers = <<>>
    /\ asm_args = NoArgs

\* assemble() of a specification that does not run it.
AsmIdle == inline_blocks = {} /\ AsmLocalsIdle

\* The pool of a specification that does not use one.
PoolIdle == PoolInit

\* The graph of a specification that does not use one.
GraphIdle ==
    /\ build = "nonecheck"
    /\ blocks = FreshGraph.blocks
    /\ forward_edges = FreshGraph.forward
    /\ backward_edges = FreshGraph.backward
    /\ opaque_edges = {}
    /\ entry_block = EntryBlock
    /\ graph_last = NoCall

PoolNext ==
    \/ \E c \in Constants : Add(c)
    \/ Clear


\* The trace of a specification that does not run one.
TraceIdle ==
    /\ instructions = EmptyFn
    /\ trace_pc = "idle"
    /\ to_visit = <<>>
    /\ traversed = <<>>
    /\ states = EmptyFn
    /\ errors = {}
    /\ max_stack = 0
    /\ max_locals = 0
    /\ peak = [stack |-> 0, locals |-> 0]
    /\ opaque_log = {}

\* The disassembler of a specification that does not run it.
DisasmIdle ==
    /\ code = [instructions |-> EmptyFn, exception_table |-> <<>>]
    /\ disasm_pc = "idle"
    /\ cur_offset = 0
    /\ cur_block = EntryBlock
    /\ is_new_block = FALSE
    /\ starting = EmptyFn
    /\ forward_jumps = EmptyFn
    /\ owner = EmptyFn

\* read() of a specification that does not run it.
ReadIdle ==
    /\ buffer = <<>>
    /\ version = 45
    /\ read_pc = "idle"
    /\ read_offset = 1
    /\ lookups = EmptyFn
    /\ read_todo = <<>>
    /\ read_exc = "none"
    /\ write_offset = 1
    /\ written = NotWritten

InitPool == PoolInit /\ GraphIdle /\ TraceIdle /\ DisasmIdle /\ ReadIdle /\ AsmIdle

ReadNext == ReadEntry \/ ReadDeref

InitRead == ReadInit /\ GraphIdle /\ TraceIdle /\ DisasmIdle /\ AsmIdle

SpecRead == InitRead /\ [][ReadNext]_vars

SpecPool == InitPool /\ [][PoolNext]_vars

\* A pool that is added to and assigned to.
PoolSetNext ==
    \/ \E c \in SetConstants :
            (pool_index <= MaxSetIndex \/ pool_index >= U16Max - 2) /\ Add(c)
    \/ \E i \in SetIndexes, c \in SetConstants : SetItem(i, c)
    \/ Clear

SpecPoolSet == InitPool /\ [][PoolSetNext]_vars

\* A pool is built by add and item assignment, written to a class file and
\* read from it.
RoundTripNext ==
    \/ \E c \in WriteConstants :
            read_pc = "idle" /\ pool_index <= MaxSetIndex /\ Add(c)
    \/ \E i \in SetIndexes, c \in SetConstants :
            read_pc = "idle" /\ pool_index <= MaxSetIndex /\ SetItem(i, c)
    \/ WriteInit
    \/ WriteEntry
    \/ ReadBack
    \/ ReadEntry
    \/ ReadDeref

SpecRoundTrip == InitPool /\ [][RoundTripNext]_vars

GraphNext ==
    \/ \E b \in UserBlocks : AddBlock(b)
    \/ \E b \in UserBlocks : RemoveBlock(b)
    \/ \E e \in UserEdges, overwrite \in BOOLEAN : Connect(e, overwrite)
    \/ \E e \in UserEdges : Disconnect(e)

InitGraph == GraphInit /\ PoolIdle /\ TraceIdle /\ DisasmIdle /\ ReadIdle /\ AsmIdle

SpecGraph == InitGraph /\ [][GraphNext]_vars

\* The instructions handed to jump(): goto is the default, ifeq and ifne are
\* conditional, and the last three are the ones jump() refuses.
JumpInstructions == {"goto", "ifeq", "ifne", "jsr", "ret", "tableswitch"}

\* The blocks the edits start from, and the blocks they go to.
EditBlocks == {Block1}

EditTargets == {EntryBlock, Block1, Block2}

\* The record of a jump() call: that of its connect, with the edge it made
\* and the out edges its block had before.
LastJump(edge, overwrite, r, g) ==
    [Last("connect", edge, overwrite, r, g) EXCEPT
        !.op = "jump", !.edge = edge,
        !.was = IF edge.from \in DOMAIN g.forward THEN g.forward[edge.from] ELSE {}]

\* InsnGraph.jump(from_, to, jump, overwrite)
Jump(from, to, jump, overwrite) ==
    /\ IF jump \in {"jsr", "ret", "tableswitch"}
       THEN /\ graph_last' = LastJump(JumpEdge(from, to, jump), overwrite,
                                      Outcome(Graph, "TypeError"), Graph)
            /\ UNCHANGED <<blocks, forward_edges, backward_edges, opaque_edges,
                           entry_block, build>>
       ELSE \E r \in GConnect(Graph, JumpEdge(from, to, jump), overwrite, TRUE) :
            /\ SetGraph(r.g)
            /\ graph_last' = LastJump(JumpEdge(from, to, jump), overwrite, r, Graph)
    /\ UNCHANGED <<poolVars, traceVars, disasmVars, asmVars, readVars>>

\* InsnGraph.fallthrough(from_, to, overwrite)
Fallthrough(from, to, overwrite) ==
    /\ \E r \in GConnect(Graph, FallthroughEdge(from, to, ""), overwrite, TRUE) :
        /\ SetGraph(r.g)
        /\ graph_last' = Last("connect", FallthroughEdge(from, to, ""), overwrite, r, Graph)
    /\ UNCHANGED <<poolVars, traceVars, disasmVars, asmVars, readVars>>

EditNext ==
    \/ \E from \in EditBlocks, to \in EditTargets,
          jump \in JumpInstructions, overwrite \in BOOLEAN :
            Jump(from, to, jump, overwrite)
    \/ \E from \in EditBlocks, to \in EditTargets,
          overwrite \in BOOLEAN :
            Fallthrough(from, to, overwrite)

SpecEdit == InitGraph /\ [][EditNext]_vars

TraceNext ==
    \/ TraceFinish
    \/ TraceBacktrack
    \/ \E e \in to_visit[Len(to_visit)].edges : TraceEdge(e)

InitTrace == TraceInit(TraceInputs) /\ PoolIdle /\ DisasmIdle /\ ReadIdle /\ AsmIdle

SpecTrace == InitTrace /\ [][TraceNext]_vars

\* The graphs the model assembles: the out edges of the entry block, block 1
\* and block 2, with and without the edges that have to come in pairs, and
\* the blocks' instructions.
AsmInputs ==
    LET entryEnds ==
            { {},
              {FallthroughEdge(EntryBlock, ReturnBlock, "return")},
              {FallthroughEdge(EntryBlock, Block1, "")},
              {JumpEdge(EntryBlock, Block1, "ifeq"), FallthroughEdge(EntryBlock, Block2, "")},
              {JumpEdge(EntryBlock, Block1, "ifeq")},
              {JumpEdge(EntryBlock, Block1, "ifeq"), JsrFallthroughEdge(EntryBlock, Block2)},
              {JumpEdge(EntryBlock, Block1, "goto")},
              {JumpEdge(EntryBlock, Block1, "goto"), FallthroughEdge(EntryBlock, Block2, "")},
              {JsrJumpEdge(EntryBlock, Block1), JsrFallthroughEdge(EntryBlock, Block2)},
              {JsrJumpEdge(EntryBlock, Block1)},
              {FallthroughEdge(EntryBlock, Block1, ""), JsrFallthroughEdge(EntryBlock, Block2)},
              {JsrFallthroughEdge(EntryBlock, Block1)} }
        block1Ends ==
            { {}, {FallthroughEdge(Block1, ReturnBlock, "return")},
              {FallthroughEdge(Block1, Block2, "")},
              {JumpEdge(Block1, Block2, "goto")},
              {JumpEdge(Block1, Block2, "ifeq")},
              {JsrFallthroughEdge(Block1, Block2)},
              {RetEdge(Block1, NoneBlock)} }
        block2Ends ==
            { {}, {FallthroughEdge(Block2, ReturnBlock, "return")},
              {JumpEdge(Block2, Block1, "goto")} }
        entryBodies == { <<>>, <<"iconst">> }
        otherBodies == { <<>>, <<"astore">> }
    IN { [edges |-> e0 \cup e1 \cup e2,
          insns |-> [b \in {EntryBlock, Block1, Block2, ReturnBlock, RethrowBlock} |->
                        IF b = EntryBlock THEN i0
                        ELSE IF b = Block1 THEN i1
                        ELSE IF b = Block2 THEN i2 ELSE <<>>]]
         : e0 \in entryEnds, e1 \in block1Ends, e2 \in block2Ends,
           i0 \in entryBodies, i1 \in otherBodies, i2 \in otherBodies }

AsmNext ==
    \/ TraceNext
    \/ \E remove_dead \in BOOLEAN, do_raise \in BOOLEAN : AssembleBegin(remove_dead, do_raise)
    \/ AssembleBlock
    \/ AssembleForce
    \/ AssembleAdjust
    \/ \E compute_frames \in BOOLEAN, class_version \in ClassVersions :
            AssembleFrames(compute_frames, class_version)
    \/ AssembleFinish

InitAssemble ==
    /\ TraceInit(AsmInputs) /\ PoolIdle /\ DisasmIdle /\ ReadIdle
    /\ inline_blocks \in SUBSET {Block1, Block2}
    /\ AsmLocalsIdle

SpecAssemble == InitAssemble /\ [][AsmNext]_vars

\* Graphs with exception handlers: one or two handlers on the entry block or
\* on block 1, with different and with equal priorities.
CatchInputs ==
    LET entryEnds ==
            { {FallthroughEdge(EntryBlock, ReturnBlock, "return")},
              {FallthroughEdge(EntryBlock, Block1, "")},
              {JumpEdge(EntryBlock, Block1, "goto")} }
        block1Ends ==
            { {}, {FallthroughEdge(Block1, ReturnBlock, "return")},
              {FallthroughEdge(Block1, Block2, "")} }
        block2Ends ==
            { {}, {FallthroughEdge(Block2, ReturnBlock, "return")} }
        handlers ==
            { {ExceptionEdge(EntryBlock, Block2, 0, "Throwable")},
              {ExceptionEdge(EntryBlock, Block2, 1, "Throwable"),
               ExceptionEdge(EntryBlock, Block1, 0, "E")},
              {ExceptionEdge(EntryBlock, Block2, 0, "Throwable"),
               ExceptionEdge(EntryBlock, Block1, 0, "E")},
              {ExceptionEdge(Block1, Block2, 1, "Throwable"),
               ExceptionEdge(EntryBlock, Block2, 2, "E"),
               ExceptionEdge(Block1, Block1, 0, "E")},
              {ExceptionEdge(Block1, Block2, 0, "Throwable"),
               ExceptionEdge(EntryBlock, Block2, 1, "E")} }
        bodies == { <<>>, <<"iconst">> }
    IN { [edges |-> e0 \cup e1 \cup e2 \cup h,
          insns |-> [b \in {EntryBlock, Block1, Block2, ReturnBlock, RethrowBlock} |->
                        IF b = EntryBlock THEN <<"iconst">>
                        ELSE IF b = Block1 THEN i1
                        ELSE IF b = Block2 THEN i2 ELSE <<>>]]
         : e0 \in entryEnds, e1 \in block1Ends, e2 \in block2Ends, h \in handlers,
           i1 \in bodies, i2 \in bodies }

InitAssembleCatch ==
    /\ TraceInit(CatchInputs) /\ PoolIdle /\ DisasmIdle /\ ReadIdle
    /\ inline_blocks \in SUBSET {Block1, Block2}
    /\ AsmLocalsIdle

SpecAssembleCatch == InitAssembleCatch /\ [][AsmNext]_vars

\* A method of the entry block and blocks 1 and 2: its edges and the
\* instructions of the three blocks.
Method(edges, i0, i1, i2) ==
    [edges |-> edges,
     insns |-> [b \in {EntryBlock, Block1, Block2, ReturnBlock, RethrowBlock} |->
                    IF b = EntryBlock THEN i0
                    ELSE IF b = Block1 THEN i1
                    ELSE IF b = Block2 THEN i2 ELSE <<>>]]

\* Methods of more than 32767 bytes: a conditional jump over block 1, with
\* the block of Narrow - 1 bytes before or after the jump, and jumps from
\* block 1 back to an entry block of Narrow - 1 bytes, Narrow - 1, Narrow + 1
\* or Narrow + 2 bytes away. No loop of them pushes more than it pops.
WideInputs ==
    { Method({JumpEdge(EntryBlock, Block2, "ifeq"), FallthroughEdge(EntryBlock, Block1, ""),
              FallthroughEdge(Block2, ReturnBlock, "return")} \cup e1, i0, i1, i2)
      : e1 \in { {FallthroughEdge(Block1, ReturnBlock, "return")},
                 {FallthroughEdge(Block1, Block2, "")} },
        i0 \in { <<"iconst">>, <<"nops">> }, i1 \in { <<"iconst">>, <<"nops">> },
        i2 \in { <<>>, <<"iconst">> } }
    \cup
    { Method({FallthroughEdge(EntryBlock, Block1, "")} \cup e1 \cup e2, <<"nops">>, i1, <<>>)
      : e1 \in { {JumpEdge(Block1, EntryBlock, "goto")},
                 {JumpEdge(Block1, EntryBlock, "ifeq"), FallthroughEdge(Block1, Block2, "")} },
        e2 \in { {}, {FallthroughEdge(Block2, ReturnBlock, "return")},
                 {FallthroughEdge(Block2, EntryBlock, "")} },
        i1 \in { <<>>, <<"astore">>, <<"nop", "nop", "iconst">> } }
    \cup
    { Method({FallthroughEdge(EntryBlock, Block1, ""),
              JsrJumpEdge(Block1, EntryBlock), JsrFallthroughEdge(Block1, Block2)} \cup e2,
             <<"nops">>, <<"astore">>, <<>>)
      : e2 \in { {}, {FallthroughEdge(Block2, ReturnBlock, "return")} } }

InitAssembleWide ==
    /\ TraceInit(WideInputs) /\ PoolIdle /\ DisasmIdle /\ ReadIdle
    /\ inline_blocks = {}
    /\ AsmLocalsIdle

SpecAssembleWide == InitAssembleWide /\ [][AsmNext]_vars

\* Methods to assemble and disassemble again: every block is reached and
\* written, none is inline, and no loop pushes more than it pops.
AgainInputs ==
    { Method(e0 \cup e1 \cup {FallthroughEdge(Block2, ReturnBlock, "return")}, i0, i1, i2)
      : e0 \in { {FallthroughEdge(EntryBlock, Block1, "")},
                 {JumpEdge(EntryBlock, Block2, "ifeq"), FallthroughEdge(EntryBlock, Block1, "")},
                 {JumpEdge(EntryBlock, Block1, "ifeq"), FallthroughEdge(EntryBlock, Block2, "")} },
        e1 \in { {FallthroughEdge(Block1, Block2, "")},
                 {JumpEdge(Block1, Block2, "goto")},
                 {JumpEdge(Block1, Block1, "ifeq"), FallthroughEdge(Block1, Block2, "")} },
        i0 \in { <<"iconst">> }, i1 \in { <<>>, <<"iconst">> }, i2 \in { <<>>, <<"astore">> } }

InitAssembleAgain ==
    /\ TraceInit(AgainInputs) /\ PoolIdle /\ DisasmIdle /\ ReadIdle
    /\ inline_blocks = {}
    /\ AsmLocalsIdle

SpecAssembleAgain == InitAssembleAgain /\ [][AsmNext]_vars

\* Methods with a block that is written more than once: block 1 is reached
\* from the entry block and from block 2 and goes on to block 4 or returns;
\* between block 2 and block 4 lies block 3.
Block3 == Block(7, 3, "InsnBlock")

Block4 == Block(8, 4, "InsnBlock")

InlineInputs ==
    { [edges |-> {JumpEdge(EntryBlock, Block2, "ifeq"), FallthroughEdge(EntryBlock, Block1, ""),
                  FallthroughEdge(Block4, ReturnBlock, "return")} \cup e1 \cup m2.edges \cup e3,
       insns |-> [b \in {EntryBlock, Block1, Block2, Block3, Block4, ReturnBlock, RethrowBlock} |->
                    IF b = EntryBlock THEN <<"iconst">>
                    ELSE IF b = Block1 THEN i1
                    ELSE IF b = Block2 THEN m2.insns
                    ELSE IF b = Block4 THEN i4 ELSE <<>>]]
      : e1 \in { {FallthroughEdge(Block1, Block4, "")},
                 {FallthroughEdge(Block1, ReturnBlock, "return")} },
        m2 \in { [edges |-> {JumpEdge(Block2, Block3, "ifeq"), FallthroughEdge(Block2, Block1, "")},
                  insns |-> <<"iconst">>],
                 [edges |-> {JumpEdge(Block2, Block1, "goto")}, insns |-> <<>>],
                 [edges |-> {FallthroughEdge(Block2, Block3, "")}, insns |-> <<>>] },
        e3 \in { {FallthroughEdge(Block3, ReturnBlock, "return")},
                 {FallthroughEdge(Block3, Block4, "")} },
        i1 \in { <<>>, <<"nop">> }, i4 \in { <<>>, <<"nop">> } }

InitAssembleInline ==
    /\ TraceInit(InlineInputs) /\ PoolIdle /\ DisasmIdle /\ ReadIdle
    /\ inline_blocks \in SUBSET {Block1, Block4}
    /\ AsmLocalsIdle

SpecAssembleInline == InitAssembleInline /\ [][AsmNext]_vars

\* The graphs with a jsr in the entry block, a ret in another block and no
\* exception handler.
SubroutineInputs ==
    { in \in TraceInputs :
        /\ \E e \in in.edges : e.cls \in {"JsrJumpEdge", "JsrFallthroughEdge"}
        /\ \E e \in in.edges : e.cls = "RetEdge"
        /\ \A e \in in.edges : e.cls # "ExceptionEdge" }

InitSubroutine == TraceInit(SubroutineInputs) /\ PoolIdle /\ DisasmIdle /\ ReadIdle /\ AsmIdle

DisasmNext ==
    \/ DisasmInsn
    \/ DisasmUnbound
    \/ DisasmTrim
    \/ DisasmHandlers

InitDisasm == DisasmInit /\ PoolIdle /\ ReadIdle /\ AsmIdle

SpecDisasm == InitDisasm /\ [][DisasmNext]_vars

\* Calls of push and pop on one frame, with one-slot and two-slot types.
FrameNext ==
    \/ \E type \in {"int", "long"} : FramePushCall(type)
    \/ \E count \in {1, 2} : FramePopCall(count)

InitFrame == FrameInit /\ PoolIdle /\ GraphIdle /\ DisasmIdle /\ ReadIdle /\ AsmIdle

SpecFrame == InitFrame /\ [][FrameNext]_vars

\* The codes with a switch: iconst at 0, the switch at 1 with one or two
\* cases, then nop and return. The default and the cases go to offset 0, to
\* the nop, to the return or to an offset after the return that holds no
\* instruction.
SwitchCodes ==
    LET after(op, n) == 1 + SwitchSize(op, n, 1)
        targets(a)   == {0, a, a + 1, a + 3}
        keys(op, n)  == IF op = "tableswitch" THEN 0..(n - 1)
                        ELSE IF n = 1 THEN {2} ELSE {2, 5}
    IN UNION { { [instructions |->
                     (0 :> Insn("iconst", 0)) @@ (1 :> Switch(op, d, f))
                     @@ (after(op, n) :> Insn("nop", 0))
                     @@ (after(op, n) + 1 :> Insn("return", 0)),
                  exception_table |-> <<>>]
                 : d \in targets(after(op, n)),
                   f \in [keys(op, n) -> targets(after(op, n))] }
               : op \in {"tableswitch", "lookupswitch"}, n \in {1, 2} }

\* Trace.from_graph(graph) at its start for the graph disassemble() returned.
\* The graphs taken further are those that left no switch instruction in a
\* block: every target of the switch had a block.
TraceDisassembled ==
    /\ disasm_pc = "done"
    /\ trace_pc = "idle"
    /\ DOMAIN forward_jumps = {}
    /\ to_visit' = << [frame |-> InitialFrame, edges |-> {RootEdge(Graph)}] >>
    /\ trace_pc' = "run"
    /\ UNCHANGED <<poolVars, graphVars, disasmVars, asmVars, readVars, instructions,
                   traversed, states, errors, max_stack, max_locals, peak, opaque_log>>

\* A code with a switch is disassembled, and the graph assembled again.
SwitchNext ==
    \/ DisasmNext
    \/ TraceDisassembled
    \/ trace_pc # "idle" /\ AsmNext

InitSwitch == DisasmStart(SwitchCodes) /\ PoolIdle /\ ReadIdle /\ AsmIdle

SpecSwitch == InitSwitch /\ [][SwitchNext]_vars

\* Calls of get and set on one frame, with one-slot and two-slot types.
LocalsNext ==
    \/ \E index \in 0..1, type \in {"int", "long"} : FrameSetCall(index, type)
    \/ \E index \in 0..2 : FrameGetCall(index)

InitLocals == LocalsInit /\ PoolIdle /\ GraphIdle /\ DisasmIdle /\ ReadIdle /\ AsmIdle

SpecLocals == InitLocals /\ [][LocalsNext]_vars

\* Graphs with cycles, self-loops and subroutines, with and without a push
\* on the way round.
LoopInputs ==
    { Method(e0 \cup e1 \cup e2, i0, i1, i2)
      : e0 \in { {FallthroughEdge(EntryBlock, Block1, "")},
                 {JumpEdge(EntryBlock, Block1, "goto")},
                 {JsrJumpEdge(EntryBlock, Block1), JsrFallthroughEdge(EntryBlock, Block2)} },
        e1 \in { {JumpEdge(Block1, Block1, "goto")},
                 {JumpEdge(Block1, Block2, "goto")},
                 {JumpEdge(Block1, Block1, "ifeq"), FallthroughEdge(Block1, Block2, "")},
                 {RetEdge(Block1, NoneBlock)} },
        e2 \in { {FallthroughEdge(Block2, ReturnBlock, "return")},
                 {JumpEdge(Block2, Block1, "goto")} },
        i0 \in { <<>>, <<"iconst">> },
        i1 \in { <<>>, <<"iconst">>, <<"astore">> },
        i2 \in { <<>>, <<"astore">> } }

InitLoops == TraceInit(LoopInputs) /\ PoolIdle /\ DisasmIdle /\ ReadIdle /\ AsmIdle

\* The frame the loop works on has a stack deeper than the model follows.
\* Nothing in the loop looks at the depth: it goes on as before, for as long
\* as there is memory for its lists, and is ended by MemoryError.
TraceExhaust ==
    /\ trace_pc = "run"
    /\ to_visit[Len(to_visit)].edges # {}
    /\ Len(to_visit[Len(to_visit)].frame.stack) > MaxStack
    /\ trace_pc' = "raised"
    /\ UNCHANGED <<poolVars, graphVars, disasmVars, asmVars, readVars, instructions, to_visit,
                   traversed, states, errors, max_stack, max_locals, peak, opaque_log>>

LoopsNext == TraceNext \/ TraceExhaust

\* The loop of from_graph on them, its body always run again until it breaks.
SpecTraceLoops == InitLoops /\ [][LoopsNext]_vars /\ WF_vars(LoopsNext)

\* The loop body always runs again until it breaks.
SpecTraceLive == InitSubroutine /\ [][TraceNext]_vars /\ WF_vars(TraceNext)

\* C1: every add(c) of a constant returns an index i with get(i) = c, and an
\* add(c) of a constant that an earlier add already returned an index for
\* returns that same index and does not grow the pool.
C1_AddGetStable ==
    (pool_last.op = "add" /\ pool_last.c.cls # "Index") =>
        /\ PoolGet(forward_entries, pool_last.ret) = pool_last.c
        /\ (pool_last.seen # {} =>
                pool_last.seen = {pool_last.ret} /\ ~pool_last.grew)

\* C2: after any sequence of add, remove, connect and disconnect calls the
\* return block and the rethrow block have no out edges and the entry block
\* has no in edges, and a connect of an edge into the entry block or out of
\* the return or rethrow block raises ValueError and leaves the graph as it
\* was.
C2_TerminalAndEntryEdges ==
    /\ \A e \in ConnectedEdges(Graph) :
            /\ ~BlockEq(e.from, ReturnBlock)
            /\ ~BlockEq(e.from, RethrowBlock)
            /\ (entry_block # NoneBlock => ~BlockEq(e.to, entry_block))
    /\ forward_edges[ReturnBlock] = {}
    /\ forward_edges[RethrowBlock] = {}
    /\ (entry_block # NoneBlock => backward_edges[entry_block] = {})
    /\ (graph_last.rejects => graph_last.exc = "ValueError" /\ ~graph_last.changed)

\* A connect of an edge out of the return block was just rejected by a graph
\* that holds edges.
C2_Witness ==
    /\ graph_last.op = "connect" /\ graph_last.rejects
    /\ entry_block = EntryBlock
    /\ ConnectedEdges(Graph) # {}

\* C3: every block has at most one out edge of each limited class
\* (fallthrough, jump, jsr jump, jsr fallthrough, ret); a connect that would
\* exceed the limit raises ValueError when overwrite is false, and when
\* overwrite is true it ends with the conflicting edges gone and the new
\* edge linked.
C3_EdgeLimits ==
    /\ \A b \in DOMAIN forward_edges : \A cls \in LimitedClasses :
            Cardinality({ e \in forward_edges[b] : e.cls = cls }) <= Limit(cls)
    /\ (graph_last.exceeds /\ ~graph_last.rejects =>
            IF graph_last.overwrite
            THEN graph_last.replaced
            ELSE graph_last.exc = "ValueError")

\* The part of C3 that is about the state alone.
C3_AtMostOnePerClass ==
    \A b \in DOMAIN forward_edges : \A cls \in LimitedClasses :
        Cardinality({ e \in forward_edges[b] : e.cls = cls }) <= Limit(cls)

\* C8 (graph half): an edge without a target that is among a block's out
\* edges is in the opaque edges.
C8_OpaqueWhileConnected ==
    \A e \in ConnectedEdges(Graph) : e.to = NoneBlock => e \in opaque_edges

EdgeClasses ==
    {"FallthroughEdge", "JumpEdge", "JsrJumpEdge", "JsrFallthroughEdge", "RetEdge",
     "SwitchEdge", "ExceptionEdge"}

\* The blocks reached from `seen` along edges of the given classes whose
\* target is known.
RECURSIVE ReachVia(_, _, _)
ReachVia(g, seen, classes) ==
    LET out  == UNION { g.forward[b] : b \in seen \cap DOMAIN g.forward }
        next == seen \cup { e.to : e \in { x \in out : x.to # NoneBlock /\ x.cls \in classes } }
    IN IF next = seen THEN seen ELSE ReachVia(g, next, classes)

HasPair(b) == b \in DOMAIN states /\ states[b] # <<>>

\* C4 as stated: when the trace has finished, every block reachable from the
\* entry block along the graph's edges has a recorded (entry, exit) pair.
C4_EveryReachableBlockHasPair ==
    trace_pc = "done" =>
        \A b \in ReachVia(Graph, {entry_block}, EdgeClasses) : HasPair(b)

\* C4: when the trace has finished, every block reachable from the entry
\* block along edges other than jsr fallthrough edges has at least one
\* recorded (entry, exit) pair.
C4_EveryFollowedBlockHasPair ==
    trace_pc = "done" =>
        \A b \in ReachVia(Graph, {entry_block}, EdgeClasses \ {"JsrFallthroughEdge"}) :
            HasPair(b)

C4_Witness ==
    /\ trace_pc = "done"
    /\ {Block1, Block2, ReturnBlock} \subseteq
            ReachVia(Graph, {entry_block}, EdgeClasses \ {"JsrFallthroughEdge"})
    /\ HasPair(Block1) /\ HasPair(Block2) /\ HasPair(ReturnBlock)
    /\ \E e \in forward_edges[EntryBlock] : e.cls = "JsrFallthroughEdge"

\* C5: max_stack is at least the most stack slots held at any instruction of
\* any block traced so far, and max_locals is at least one more than the
\* highest local slot held.
C5_MaximaAreUpperBounds ==
    /\ max_stack >= peak.stack
    /\ max_locals >= peak.locals

\* The max_locals half of C5 alone.
C5_MaxLocalsIsUpperBound == max_locals >= peak.locals

\* C8: an edge without a target is in the opaque set while it is connected,
\* and every such edge the trace has reached was resolved to a target block
\* or had an error reported for it.
C8_OpaqueResolvedOrReported ==
    /\ C8_OpaqueWhileConnected
    /\ \A l \in opaque_log :
        /\ l.edge.to = NoneBlock
        /\ l.errs \subseteq errors
        /\ l.resolved \/ l.errs # {}
        /\ l.resolved => HasPair(l.to)

C8_Witness ==
    /\ trace_pc = "done"
    /\ \E l \in opaque_log : l.resolved /\ l.errs = {}
    /\ \E l \in opaque_log : ~l.resolved /\ l.errs # {}

\* C9: a ret edge reached with a return address pushed at a block without a
\* jsr jump edge has an INVALID_BLOCK error reported, and the trace then runs
\* to completion.
C9_OrphanRetReportedAndTraceCompletes ==
    /\ [](\A l \in opaque_log :
            l.orphan => \E x \in l.errs \cap errors : x.type = "INVALID_BLOCK")
    /\ ((\E l \in opaque_log : l.orphan) ~> (trace_pc = "done"))

C9_Witness ==
    /\ trace_pc = "done"
    /\ \E l \in opaque_log : l.orphan /\ l.resolved

JumpOffsets ==
    { o \in DOMAIN code.instructions : code.instructions[o].op \in {"goto", "ifeq", "jsr", "ret"} }

\* The jump edges (JumpEdge, JsrJumpEdge, RetEdge) that carry the jump
\* instruction at offset o: those out of the block the instruction ended.
JumpEdgesOf(o) ==
    { e \in ConnectedEdges(Graph) :
        /\ e.cls \in {"JumpEdge", "JsrJumpEdge", "RetEdge"}
        /\ e.from = owner[o]
        /\ e.insn = code.instructions[o].op }

\* The jump at offset o is a ret or jumps to the offset of an instruction.
HasTarget(o) ==
    \/ code.instructions[o].op = "ret"
    \/ code.instructions[o].target \in DOMAIN code.instructions

\* C6 as stated: in the disassembled graph every jump instruction of the code
\* has exactly one jump edge, out of a block no other jump instruction ended.
C6_EveryJumpHasOneEdge ==
    disasm_pc = "done" =>
        \A o \in JumpOffsets :
            /\ Cardinality(JumpEdgesOf(o)) = 1
            /\ \A o2 \in JumpOffsets \ {o} : owner[o2] # owner[o]

\* C6: in the disassembled graph every jump instruction that is a ret or
\* whose target is the offset of an instruction has exactly one jump edge,
\* out of a block no other jump instruction ended, to the block that starts
\* at the target; a jump to any other offset has no jump edge and stays in
\* its block as an instruction.
C6_EveryBoundJumpHasOneEdge ==
    disasm_pc = "done" =>
        \A o \in JumpOffsets :
            /\ \A o2 \in JumpOffsets \ {o} : owner[o2] # owner[o]
            /\ IF HasTarget(o)
               THEN /\ Cardinality(JumpEdgesOf(o)) = 1
                    /\ \A e \in JumpEdgesOf(o) :
                         IF e.cls = "RetEdge" THEN e.to = NoneBlock
                         ELSE e.to = starting[code.instructions[o].target]
               ELSE /\ JumpEdgesOf(o) = {}
                    /\ \E i \in DOMAIN instructions[owner[o]] :
                         instructions[owner[o]][i] = code.instructions[o].op

C6_Witness ==
    /\ disasm_pc = "done"
    /\ \E o \in JumpOffsets :
        /\ code.instructions[o].op = "goto"
        /\ code.instructions[o].target > o
        /\ Cardinality(JumpEdgesOf(o)) = 1
    /\ \E o \in JumpOffsets :
        /\ code.instructions[o].op = "ifeq"
        /\ code.instructions[o].target <= o
        /\ Cardinality(JumpEdgesOf(o)) = 1

\* The offset of the first instruction that went to block b.
StartOf(b) ==
    CHOOSE o \in DOMAIN owner : owner[o] = b /\ \A x \in DOMAIN owner : owner[x] = b => o <= x

\* Row i of the exception table (priority i - 1) has its exception edge out
\* of exactly the blocks that start in [start_pc, end_pc), to the block that
\* starts at handler_pc, and those blocks hold every instruction of the range.
RowHolds(i) ==
    LET row == code.exception_table[i]
        type == IF row.catch_type = "None" THEN "Throwable" ELSE row.catch_type
        rowEdges(b) == { e \in forward_edges[b] : e.cls = "ExceptionEdge" /\ e.value = i - 1 }
        hasEdge(b) == \E e \in rowEdges(b) :
                         /\ e.throwable = type
                         /\ row.handler_pc \in DOMAIN owner
                         /\ e.to = owner[row.handler_pc]
                         /\ StartOf(e.to) = row.handler_pc
        starts(b) == b \in { owner[o] : o \in DOMAIN owner }
                     /\ row.start_pc <= StartOf(b) /\ StartOf(b) < row.end_pc
    IN /\ \A b \in DOMAIN forward_edges :
            IF starts(b) THEN hasEdge(b) /\ Cardinality(rowEdges(b)) = 1
            ELSE rowEdges(b) = {}
       /\ \A o \in DOMAIN code.instructions :
            (row.start_pc <= o /\ o < row.end_pc) => hasEdge(owner[o])

\* C7 as stated: every row of the exception table has its exception edges in
\* the disassembled graph.
C7_EveryRowHasItsEdges ==
    disasm_pc = "done" => \A i \in DOMAIN code.exception_table : RowHolds(i)

\* C7: every row of the exception table whose start_pc and handler_pc are
\* offsets of instructions has its exception edges in the disassembled graph.
C7_EveryValidRowHasItsEdges ==
    disasm_pc = "done" =>
        \A i \in DOMAIN code.exception_table :
            ( /\ code.exception_table[i].start_pc \in DOMAIN code.instructions
              /\ code.exception_table[i].handler_pc \in DOMAIN code.instructions )
            => RowHolds(i)

C7_Witness ==
    /\ disasm_pc = "done"
    /\ Len(code.exception_table) = 2
    /\ \A i \in DOMAIN code.exception_table : RowHolds(i)
    /\ \E e \in ConnectedEdges(Graph) : e.cls = "ExceptionEdge" /\ e.value = 1
                                         /\ e.throwable = "Throwable"
    /\ \E e \in ConnectedEdges(Graph) : e.cls = "ExceptionEdge" /\ e.value = 0
                                         /\ e.throwable = "E"

\* Resolving the entry at `index` comes back to an offset it is already
\* resolving.
RECURSIVE ReEnters(_, _, _)
ReEnters(lk, index, visited) ==
    /\ index \in DOMAIN lk
    /\ lk[index].tag \in {"Class", "String", "MethodType"}
    /\ \/ lk[index].ref \in visited
       \/ ReEnters(lk, lk[index].ref, visited \cup {lk[index].ref})

\* C10 as stated: when resolving an entry re-enters an offset on the
\* resolution stack, read() puts an Index placeholder in its place and goes
\* on to finish the pool; it does not raise.
C10_CycleGivesPlaceholder ==
    (read_pc \in {"deref", "raised"} /\ read_todo # <<>>
        /\ ReEnters(lookups, Head(read_todo), {}))
    => read_pc # "raised"

\* What read() does on such an entry: it raises ValueError.
C10_CycleRaises ==
    /\ (read_pc = "raised" /\ read_exc = "Recursive constant")
            => ReEnters(lookups, Head(read_todo), {})
    /\ (read_pc = "done" /\ pool_index = 1 + Slots(buffer))
            => \A i \in DOMAIN lookups : ~ReEnters(lookups, i, {})

\* A tag read() is to accept: one of the constant classes, MethodType (a
\* class of version 51.0) only in a class file of version 51.0 or later.
AcceptedTag(tag) ==
    \/ tag \in {"UTF8", "Long", "Class", "String"}
    \/ tag = "MethodType" /\ version >= 51

Accepted(raw) == AcceptedTag(raw.tag)

\* C11: read() rejects a slot whose tag is unknown and a slot whose constant
\* class is newer than the class file version: it raises at that slot, goes
\* on to no later stage, and no constant of such a class is in the pool it
\* builds.
C11_UnsupportedSlotsRejected ==
    /\ \A i \in DOMAIN lookups : Accepted(lookups[i])
    /\ \A i \in DOMAIN forward_entries :
            AcceptedTag(forward_entries[i].cls)
    /\ (\E i \in 1..Len(buffer) : ~Accepted(buffer[i]))
            => /\ read_pc \in {"parse", "raised"}
               /\ forward_entries = EmptyFn
    /\ (read_pc = "raised" /\ read_exc = "Unknown constant tag")
            => buffer[Len(read_todo) + 1].tag = "Unknown"
    /\ (read_pc = "raised" /\ read_exc = "Constant is not supported")
            => (buffer[Len(read_todo) + 1].tag = "MethodType" /\ version < 51)
    /\ (read_pc = "parse" /\ read_todo # <<>>)
            => \A i \in 1..Len(read_todo) : Accepted(buffer[i])

\* A slot newer than the class file is met after an accepted one, and the
\* same class is read into the pool of a newer class file.
C11_Witness ==
    \/ /\ read_pc = "raised"
       /\ read_exc \in {"Constant is not supported", "Unknown constant tag"}
       /\ lookups # EmptyFn
    \/ /\ read_pc = "done"
       /\ \E i \in DOMAIN forward_entries : forward_entries[i].cls = "MethodType"

\* C12 as stated: in every pool state reached by add and item assignment no
\* constant is at index 0, the index after a Long or Double holds no
\* constant, and the next constant appended goes at least two past it.
C12_ReservedSlotsStayFree ==
    /\ 0 \notin DOMAIN forward_entries
    /\ \A k \in DOMAIN forward_entries :
            Wide(forward_entries[k]) =>
                /\ (k + 1) \notin DOMAIN forward_entries
                /\ pool_index >= k + 2

\* C13 as stated: add of a Long or Double that takes the last index of the
\* pool leaves the next writable offset at most 65535.
C13_WideAddKeepsU16 ==
    (pool_last.op = "add" /\ Wide(pool_last.c) /\ pool_last.grew
        /\ pool_last.ret = U16Max - 1)
    => pool_index <= U16Max

\* C14 as stated: write() emits the occupied slots in ascending order, two
\* apart after a Long or Double, and packs the final offset as the count;
\* read() of what was written, for the same version, gives a pool with the
\* same constant at every index.
C14_WriteReadRoundTrip ==
    /\ read_pc # "raised"
    /\ written # NotWritten => written.count = 1 + Slots(buffer)
    /\ (read_pc = "done" /\ written # NotWritten) =>
            /\ forward_entries = written.fwd
            /\ pool_index = written.count

\* The slots write() walks: from 1, two apart after a Long or Double.
RECURSIVE Walked(_, _, _)
Walked(fwd, offset, count) ==
    IF offset >= count \/ offset \notin DOMAIN fwd THEN {}
    ELSE {offset} \cup Walked(fwd, offset + (IF Wide(fwd[offset]) THEN 2 ELSE 1), count)

\* What holds of write() and read(): every pool read back has the constants
\* of the slots write() walked, at their indices, and the count packed is the
\* final offset.
C14_WalkedSlotsRoundTrip ==
    /\ written # NotWritten => written.count = 1 + Slots(buffer)
    /\ (read_pc = "done" /\ written # NotWritten) =>
            /\ DOMAIN forward_entries = Walked(written.fwd, 1, written.count)
            /\ \A i \in DOMAIN forward_entries : forward_entries[i] = written.fwd[i]
            /\ pool_index = written.count

\* C15 as stated: constant equality is structural. The constant just added
\* equals a constant the pool holds exactly when they are of the same class
\* with the same payload, the comparison gives the same answer both ways
\* round, and equal constants have equal hashes.
C15_StructuralEquality ==
    (pool_last.op = "add" /\ pool_last.c.cls # "Index") =>
        \A k \in DOMAIN backward_entries :
            /\ PyEq(k, pool_last.c) <=> (k = pool_last.c)
            /\ PyEq(k, pool_last.c) <=> PyEq(pool_last.c, k)
            /\ PyEq(k, pool_last.c) => HashEq(k, pool_last.c)

\* What holds of Constant.__eq__ and __hash__: == is symmetric, equal
\* constants have equal hashes, and constants of different classes are never
\* equal.
C15_SymmetricAndHashed ==
    (pool_last.op = "add" /\ pool_last.c.cls # "Index") =>
        \A k \in DOMAIN backward_entries :
            /\ PyEq(k, pool_last.c) <=> PyEq(pool_last.c, k)
            /\ PyEq(k, pool_last.c) => HashEq(k, pool_last.c)
            /\ PyEq(k, pool_last.c) => k.cls = pool_last.c.cls

\* C18 as stated: after remove(b) returns for a block b of the graph, b is
\* not a block of the graph and no edge the graph holds, among the out edges
\* or the in edges of any block, comes from b or goes to b.
C18_RemoveLeavesNoTrace ==
    (graph_last.op = "remove" /\ graph_last.exc = "none" /\ graph_last.ingraph) =>
        /\ \A l \in DOMAIN blocks : blocks[l] # graph_last.block
        /\ \A e \in HeldEdges(Graph) :
                e.from # graph_last.block /\ e.to # graph_last.block

\* What remove(b) does leave: b is no key of the out edges.
C18_RemoveDropsOutEdges ==
    (graph_last.op = "remove" /\ graph_last.exc = "none" /\ graph_last.ingraph) =>
        /\ graph_last.block \notin DOMAIN forward_edges
        /\ \A e \in ConnectedEdges(Graph) : e.from # graph_last.block

\* The block of the last jump() held exactly one JumpEdge, a conditional one,
\* and exactly one FallthroughEdge.
C19_OnConditionalBlock ==
    /\ graph_last.op = "jump"
    /\ graph_last.overwrite
    /\ Cardinality({ e \in graph_last.was : e.cls = "JumpEdge" }) = 1
    /\ Cardinality({ e \in graph_last.was : e.cls = "FallthroughEdge" }) = 1
    /\ \A e \in graph_last.was :
            e.cls = "JumpEdge" => e.insn \in {"ifeq", "ifne"}

\* C19: a jump(from, to, instruction) that returns, made on a block with one
\* conditional jump edge and one fallthrough edge, leaves the block with the
\* new jump edge in place of the old one and with the same fallthrough edge,
\* which also stays among the in edges of its target; the call raises only
\* for a jsr, ret or switch instruction or for a target that is the entry
\* block.
C19_JumpReplacesOnlyTheJump ==
    C19_OnConditionalBlock =>
        LET from == graph_last.edge.from
            kept == { e \in graph_last.was : e.cls # "JumpEdge" }
        IN  IF graph_last.exc = "none"
            THEN /\ forward_edges[from] = kept \cup {graph_last.edge}
                 /\ \A e \in kept :
                        e.cls = "FallthroughEdge" => e \in backward_edges[e.to]
            ELSE \/ graph_last.edge.insn \in {"jsr", "ret", "tableswitch"}
                 \/ graph_last.edge.to.label = 0

\* A conditional jump of the block was replaced by a different one.
C19_Witness ==
    /\ C19_OnConditionalBlock
    /\ graph_last.exc = "none"
    /\ graph_last.edge \notin graph_last.was
    /\ graph_last.edge \in forward_edges[graph_last.edge.from]

\* An INVALID_BLOCK error was reported for the block. The errors of the
\* trace carry no block in the model and count for every block.
ReportedFor(b) ==
    \E err \in errors :
        /\ err.type = "INVALID_BLOCK"
        /\ "src" \in DOMAIN err => err.src = b

ConditionalJumpsOf(b) ==
    { e \in forward_edges[b] : e.cls = "JumpEdge" /\ e.insn \in {"ifeq", "ifne"} }

UnconditionalJumpsOf(b) ==
    { e \in forward_edges[b] : e.cls = "JumpEdge" /\ e.insn \notin {"ifeq", "ifne"} }

FallthroughsOf(b) == { e \in forward_edges[b] : e.cls = "FallthroughEdge" }

JsrFallthroughsOf(b) == { e \in forward_edges[b] : e.cls = "JsrFallthroughEdge" }

C16_Unpaired(b) ==
    /\ b \in DOMAIN asm_offsets
    /\ \/ ConditionalJumpsOf(b) # {} /\ FallthroughsOf(b) \cup JsrFallthroughsOf(b) = {}
       \/ UnconditionalJumpsOf(b) # {} /\ FallthroughsOf(b) # {}

C17_UnpairedJsrReported ==
    asm_pc = "done" =>
        \A b \in DOMAIN asm_offsets :
            (/\ \E e \in forward_edges[b] : e.cls = "JsrJumpEdge"
             /\ JsrFallthroughsOf(b) = {}) => ReportedFor(b)

\* Every write of every block, as <<block, start, end>>.
Writes ==
    UNION { { <<b, asm_offsets[b][i][1], asm_offsets[b][i][2]>> : i \in DOMAIN asm_offsets[b] }
            : b \in DOMAIN asm_offsets }

\* The entry block is written at offset 0 and the other blocks after it in
\* the order of their labels.
C20_EntryFirstThenByLabel ==
    asm_pc \in {"blocks", "force", "done"} =>
        /\ entry_block \in DOMAIN asm_offsets
        /\ asm_offsets[entry_block][1][1] = 0
        /\ \A w1, w2 \in Writes :
            (w1[1] # entry_block /\ w2[1] # entry_block /\ w1[1].label < w2[1].label)
                => w1[2] <= w2[2]

\* With remove_dead_blocks no block is written that the trace has no frames
\* for.
C20_NoDeadBlockWritten ==
    remove_dead_blocks => \A b \in DOMAIN asm_offsets : b \in DOMAIN states

\* Every block the trace has frames for is written.
C20_TracedBlocksWritten ==
    asm_pc = "done" => \A b \in DOMAIN states : b \in DOMAIN asm_offsets

\* C20 as stated: the assembler writes the entry block at offset 0 and then
\* the remaining blocks in ascending label order; with remove_dead_blocks no
\* block absent from the trace is written; every block present in the trace
\* is written at least once.
C20_WriteOrderAndLiveness ==
    /\ C20_EntryFirstThenByLabel
    /\ C20_NoDeadBlockWritten
    /\ C20_TracedBlocksWritten

\* C21: in the exception table assemble() emits, a row that comes from an
\* exception edge of lower priority value stands before every row that comes
\* from an edge of higher priority value; in particular for two handlers
\* that cover the same offset.
C21_TableInPriorityOrder ==
    asm_pc = "done" =>
        /\ Len(asm_handlers) = Len(asm_code.exception_table)
        /\ \A i, j \in DOMAIN asm_handlers :
                asm_handlers[i].value < asm_handlers[j].value => i < j

\* Two rows cover offset 0 and the edge appended first has the higher
\* priority value.
C21_Witness ==
    /\ asm_pc = "done"
    /\ \E i, j \in DOMAIN asm_code.exception_table :
        /\ i < j
        /\ asm_handlers[i].value < asm_handlers[j].value
        /\ asm_code.exception_table[i].start_pc = asm_code.exception_table[j].start_pc
        /\ asm_code.exception_table[i].end_pc > asm_code.exception_table[i].start_pc
    /\ \E i, j \in DOMAIN asm_exceptions :
        i < j /\ asm_exceptions[i].value > asm_exceptions[j].value

\* The jsr and jsr_w instructions of the code that were not turned into
\* nops: the offsets they are written at.
LiveJsr ==
    { o \in DOMAIN LiveJumps(asm_jumps, asm_dead, asm_offsets) :
        asm_jumps[o].insn \in {"jsr", "jsr_w"} }

Displacement(o) ==
    LET starts == { asm_offsets[asm_jumps[o].to][i][1] : i \in DOMAIN asm_offsets[asm_jumps[o].to] }
        dist(x) == IF x >= o THEN x - o ELSE o - x
    IN (CHOOSE x \in starts : \A y \in starts : dist(x) <= dist(y)) - o

\* The two-byte jumps of the code whose target was written.
NarrowJumps ==
    { o \in DOMAIN asm_jumps :
        /\ asm_jumps[o].insn \in {"goto", "ifeq", "ifne", "jsr"}
        /\ asm_jumps[o].to \in DOMAIN asm_offsets }

\* C25: in a method of more than 32767 bytes, the write of a block that
\* finds a narrow jump out of reach of its target ends once the intermediary
\* goto_w block is inserted (it does not run out of stack making more of
\* them), and every narrow jump of the assembled code has a displacement
\* that fits a signed 16-bit value.
C25_OutOfReachJumpGetsIntermediary ==
    /\ asm_exc # "RecursionError"
    /\ asm_pc = "done" =>
            \A o \in NarrowJumps : Displacement(o) >= -(Narrow + 1) /\ Displacement(o) <= Narrow

\* The narrow jumps of the code that was assembled fit.
C25_AssembledJumpsFit ==
    asm_pc = "done" =>
        \A o \in NarrowJumps : Displacement(o) >= -(Narrow + 1) /\ Displacement(o) <= Narrow

\* C23: assemble() raises only at its end, and there exactly when do_raise
\* is true and the verifier has logged an error; with do_raise false every
\* call returns the code. The later phases run whatever was logged before.
C23_RaisesOnlyAtTheEnd ==
    /\ asm_pc = "raised" =>
            asm_exc = "VerifyError" /\ asm_args.do_raise /\ errors # {}
    /\ asm_pc = "done" => ~(asm_args.do_raise /\ errors # {})

\* With errors in the log, assemble() raises VerifyError, if do_raise is
\* true and nothing else was raised on the way, and returns the code if it
\* is false.
C23_VerifyErrorIffDoRaise ==
    /\ asm_exc = "VerifyError" => asm_args.do_raise /\ errors # {}
    /\ asm_pc = "done" => ~(asm_args.do_raise /\ errors # {})

\* Errors were logged while the blocks were written, and the call ran to
\* its end and raised them there.
C23_Witness ==
    /\ asm_exc = "VerifyError"
    /\ \E e \in errors : e.type = "INVALID_BLOCK"
    /\ DOMAIN asm_offsets # {}

\* `code.instructions[offset] = instruction` of a block's write that begins
\* at `start`: the instruction and the offset of each.
RECURSIVE BodyAt(_, _)
BodyAt(insns, start) ==
    IF insns = <<>> THEN EmptyFn
    ELSE Put(BodyAt(Tail(insns), start + InsnSize(Head(insns))), start, Insn(Head(insns), 0))

\* The return or athrow that ends the writes of a block whose fallthrough
\* edge goes to the return or the rethrow block.
ReturnsAt(b) ==
    LET ft == asm_last[b].ft IN
    IF ft # NoEdge /\ (BlockEq(ft.to, ReturnBlock) \/ BlockEq(ft.to, RethrowBlock))
    THEN { <<asm_offsets[b][i][2] - 1, Insn(ft.insn, 0)>> : i \in DOMAIN asm_offsets[b] }
    ELSE {}

\* The instructions of the code assemble() returns, none of its blocks
\* being inline: those of the blocks where they were written, the jumps
\* with the offsets the adjustment gave them (`start - offset`, read back as
\* `offset + instruction.offset`), and the returns.
AssembledInstructions ==
    LET body(b, i) == BodyAt(instructions[b], asm_offsets[b][i][1])
        bodies == UNION { UNION { { <<o, body(b, i)[o]>> : o \in DOMAIN body(b, i) }
                                  : i \in DOMAIN asm_offsets[b] }
                          : b \in DOMAIN asm_offsets }
        jumps  == { <<o, Insn(asm_jumps[o].insn,
                              IF asm_jumps[o].to \in DOMAIN asm_offsets
                              THEN o + Displacement(o) ELSE 0)>> : o \in DOMAIN asm_jumps }
        ends   == UNION { ReturnsAt(b) : b \in DOMAIN asm_offsets }
        all    == bodies \cup jumps \cup ends
    IN [o \in { x[1] : x \in all } |-> (CHOOSE x \in all : x[1] = o)[2]]

AssembledCode ==
    [instructions |-> AssembledInstructions, exception_table |-> asm_code.exception_table]

\* `for offset in sorted(instructions_)` of the disassembler.
RECURSIVE DisasmLoop(_, _, _)
DisasmLoop(c, d, offs) ==
    IF offs = <<>> THEN d
    ELSE DisasmLoop(c, StepInsn(c, d, Head(offs)).d, Tail(offs))

\* `if forward_jumps:` and what follows the loop: the jumps left unbound,
\* the empty final block and the exception edges. None when it raises.
AfterLoop(c, d, u) ==
    CHOOSE r \in { IF u.exc # "none" \/ t.exc # "none" THEN EmptyGraph
                   ELSE ConnectAll(t.g, HandlerEdges(c, d.starting))
                   : t \in IF u.insns[d.block] = <<>> /\ u.g.forward[d.block] = {}
                           THEN GRemove(u.g, d.block, FALSE)
                           ELSE {Outcome(u.g, "none")} } : TRUE

\* InsnGraph.disassemble(code)
Disassemble(c) ==
    CHOOSE r \in { AfterLoop(c, d, Unbound(d.g, d.insns, UNION { d.fj[t] : t \in DOMAIN d.fj }))
                   : d \in { DisasmLoop(c, Loop(FreshGraph,
                                    [b \in {EntryBlock, ReturnBlock, RethrowBlock} |-> <<>>],
                                    EntryBlock, FALSE, EmptyFn, EmptyFn),
                                SortedSeq(DOMAIN c.instructions)) } } : TRUE

BlocksOf(g) == { g.blocks[l] : l \in DOMAIN g.blocks }

\* The two graphs have the same blocks and the same edges, kind by kind,
\* under some renumbering of the labels that keeps the entry, the return
\* and the rethrow block.
SameStructure(g, h) ==
    \E f \in [BlocksOf(g) -> BlocksOf(h)] :
        /\ \A b \in BlocksOf(h) : \E a \in BlocksOf(g) : f[a] = b
        /\ Cardinality(BlocksOf(g)) = Cardinality(BlocksOf(h))
        /\ \A b \in {EntryBlock, ReturnBlock, RethrowBlock} : f[b] = b
        /\ { <<e.cls, f[e.from], f[e.to]>> : e \in ConnectedEdges(g) }
             = { <<e.cls, e.from, e.to>> : e \in ConnectedEdges(h) }

\* C24: whenever a graph is assembled without an error and without an
\* exception, disassembling the code gives a graph with the same blocks and
\* the same edges (kind, source and target) up to the numbering of the
\* labels.
C24_DisassembledIsTheSameGraph ==
    (asm_pc = "done" /\ errors = {}) => SameStructure(Graph, Disassemble(AssembledCode))

\* The graphs for which it does hold: every block but the entry block is
\* the target of a jump.
C24_Witness ==
    /\ asm_pc = "done" /\ errors = {}
    /\ SameStructure(Graph, Disassemble(AssembledCode))

\* The trace entered the block with stacks of different depths.
DepthsDiffer(b) ==
    /\ b \in DOMAIN states
    /\ \E i, j \in DOMAIN states[b] : Len(states[b][i][1].stack) # Len(states[b][j][1].stack)

\* An INVALID_STACK_MERGE error is in the log for the block: its source is
\* the block or an edge to it.
StackMergeReported(b) ==
    \E err \in errors :
        /\ err.type = "INVALID_STACK_MERGE"
        /\ err.src = b \/ ("to" \in DOMAIN err.src /\ err.src.to = b)

\* assemble() went through all its phases.
AssembleEnded == asm_pc = "done" \/ asm_exc = "VerifyError"

\* C26 as stated: once assemble() is through, every block that was entered
\* with stacks of different depths, a block that only returns included, has
\* an INVALID_STACK_MERGE error in the log.
C26_DifferentDepthsReported ==
    AssembleEnded => \A l \in DOMAIN blocks : DepthsDiffer(blocks[l]) => StackMergeReported(blocks[l])

\* The edges whose targets get a stack-map frame: the jumps written in live
\* code and the exception edges, with a target that was written.
FrameEdges ==
    { e \in { LiveJumps(asm_jumps, asm_dead, asm_offsets)[o]
                : o \in DOMAIN LiveJumps(asm_jumps, asm_dead, asm_offsets) }
            \cup { asm_exceptions[i] : i \in DOMAIN asm_exceptions } :
        e.to \in DOMAIN asm_offsets }

\* The frames were computed: compute_frames was true, the class version is
\* at least 50.0 and no jsr jump edge is live.
FramesComputed ==
    /\ AssembleEnded
    /\ asm_args.compute_frames
    /\ asm_args.version >= StackMapTableSince
    /\ \A e \in FrameEdges : e.cls # "JsrJumpEdge"

\* What holds of C26: when the stack-map frames are computed, every block
\* that a written jump or an exception edge goes to and that was entered
\* with stacks of different depths has an INVALID_STACK_MERGE error in the
\* log, its source an edge to the block.
C26_ReportedWhenFramesComputed ==
    FramesComputed =>
        \A e \in FrameEdges :
            DepthsDiffer(e.to) =>
                \E err \in errors :
                    /\ err.type = "INVALID_STACK_MERGE"
                    /\ err.src \in FrameEdges
                    /\ err.src.to = e.to

\* Block 2 only returns and is reached by a jump with one value on the stack
\* and by falling through with two; the frames were computed and the error
\* is in the log.
C26_Witness ==
    /\ FramesComputed
    /\ DepthsDiffer(Block2)
    /\ instructions[Block2] = <<>>
    /\ FallthroughEdge(Block2, ReturnBlock, "return") \in forward_edges[Block2]
    /\ \E err \in errors : err.type = "INVALID_STACK_MERGE" /\ err.src.to = Block2

\* C27: Trace.from_graph comes to its end on every graph, with cycles,
\* self-loops and subroutines: the loop breaks and the trace is returned.
C27_TraceTerminates == <>(trace_pc = "done")

\* The loop was still deepening the stack when memory ran out.
C27_OutOfMemory ==
    /\ trace_pc = "raised"
    /\ \E b \in DOMAIN states : Len(states[b]) > MaxStack

\* The traces that do end visited a block of a cycle more than once.
C27_Revisited ==
    /\ trace_pc = "done"
    /\ \E b \in DOMAIN states : Len(states[b]) > 1

\* Each time round the loop the block is entered with one entry more on the
\* stack than the time before: no entry frame conforms to one recorded.
C27_DeeperEachTime ==
    \E b \in DOMAIN states :
        /\ Len(states[b]) > MaxStack
        /\ \A i \in 1..(Len(states[b]) - 1) :
                Len(states[b][i + 1][1].stack) = Len(states[b][i][1].stack) + 1

\* Trace.subroutines: the resolved ret edges under the jsr jump edge of the
\* block that pushed the return address (NoEdge for None).
Subroutines ==
    [k \in { l.key : l \in { x \in opaque_log : x.resolved } } |->
        { RetEdge(l.edge.from, l.to) : l \in { x \in opaque_log : x.resolved /\ x.key = k } }]

\* The edge the pass of the loop popped.
Popped == to_visit[Len(to_visit)].edges \ to_visit'[Len(to_visit)].edges

\* C28: a pass of the loop that resolves a ret edge goes on to the target of
\* the jsr fallthrough edge of the block that pushed the return address the
\* ret's local holds: that block is the one traced, if any is, and the
\* resolved edge is in the subroutine map under the jsr jump edge of the
\* block. No pass that traces a block popped a jsr fallthrough edge.
C28_RetReturnsAfterTheJsr ==
    [][ /\ \A l \in opaque_log' \ opaque_log :
              l.resolved =>
                LET address == to_visit[Len(to_visit)].frame.locals[1] IN
                /\ address.type = "returnAddress"
                /\ JsrFallthroughEdge(address.src.from, l.to) \in forward_edges[address.src.from]
                /\ Len(traversed') > Len(traversed) => traversed'[Len(traversed')] = l.to
                /\ l.key \in EdgeOrNone({ e \in forward_edges[address.src.from] :
                                            e.cls = "JsrJumpEdge" })
                /\ RetEdge(l.edge.from, l.to) \in Subroutines'[l.key]
        /\ (trace_pc = "run" /\ Len(traversed') > Len(traversed)) =>
                \A e \in Popped : e.cls # "JsrFallthroughEdge"
      ]_vars

\* A ret was resolved and the block after the jsr was traced from it, though
\* the jsr fallthrough edge to it had been popped and skipped.
C28_Witness ==
    \E l \in opaque_log :
        /\ l.resolved /\ l.key # NoEdge
        /\ l.to \in DOMAIN states /\ states[l.to] # <<>>
        /\ traversed # <<>> /\ traversed[Len(traversed)] = l.to
        /\ JsrFallthroughEdge(l.key.from, l.to) \in forward_edges[l.key.from]
        /\ \E i \in DOMAIN to_visit :
              /\ JsrJumpEdge(l.key.from, l.key.to) \in forward_edges[l.key.from]
              /\ i < Len(to_visit)
              /\ JsrFallthroughEdge(l.key.from, l.to) \notin to_visit[i].edges

\* C29: a pass of the loop that enters a block through an exception edge
\* records an entry frame whose stack is one entry, of the edge's throwable
\* type and with the edge as its source, whatever the stack was that the
\* edge was followed with; its locals are those of that frame.
C29_HandlerEntryFrame ==
    [][ (trace_pc = "run" /\ Len(traversed') > Len(traversed)) =>
            \A e \in Popped :
                e.cls = "ExceptionEdge" =>
                    LET from  == to_visit[Len(to_visit)].frame
                        entry == states'[e.to][Len(states'[e.to])][1]
                    IN /\ Len(entry.stack) = 1
                       /\ entry.stack[1].type = e.throwable
                       /\ entry.stack[1].src = e
                       /\ entry.locals = from.locals
      ]_vars

\* A handler was entered from a frame with an int on the stack and a local
\* set: the entry frame recorded for it holds the throwable alone and the
\* local.
C29_Witness ==
    \E i \in DOMAIN to_visit :
        /\ i < Len(to_visit)
        /\ to_visit[i].frame.stack # <<>>
        /\ to_visit[i].frame.stack[1].type = "int"
        /\ 1 \in DOMAIN to_visit[i].frame.locals
        /\ \E b \in DOMAIN states : \E j \in DOMAIN states[b] :
              /\ Len(states[b][j][1].stack) = 1
              /\ states[b][j][1].stack[1].src.cls = "ExceptionEdge"
              /\ states[b][j][1].stack[1].src.to = b
              /\ states[b][j][1].stack[1].type = states[b][j][1].stack[1].src.throwable
              /\ states[b][j][1].locals = to_visit[i].frame.locals

\* The frame push and pop were called on.
TheFrame == to_visit[1].frame

\* Every two-slot value on the stack has Frame.top right above it.
WideHaveTop(stack) ==
    \A i \in DOMAIN stack :
        InternalSize(stack[i].type) > 1 => (i < Len(stack) /\ stack[i + 1] = Top)

\* C30: after any calls of push and pop on a frame, every two-slot value on
\* the stack is followed by the top sentinel, so that the length of the
\* stack is the number of slots taken, and max_stack is the greatest length
\* the stack has had.
C30_LengthIsSlotsAndMaxStackIsPeak ==
    trace_pc = "frame" =>
        /\ WideHaveTop(TheFrame.stack)
        /\ TheFrame.max_stack = peak.stack
        /\ Len(TheFrame.stack) <= TheFrame.max_stack

\* What holds of max_stack: it is the greatest length the stack has had.
C30_MaxStackIsPeak ==
    trace_pc = "frame" =>
        /\ TheFrame.max_stack = peak.stack
        /\ Len(TheFrame.stack) <= TheFrame.max_stack

\* A long was pushed and one entry popped: the long is left on the stack
\* with nothing above it.
C30_HalfALong ==
    /\ trace_pc = "frame"
    /\ peak.stack = 2
    /\ Len(TheFrame.stack) = 1
    /\ TheFrame.stack[1].type = "long"

\* The last call of pop found fewer entries on the stack than it was asked for.
Underflowed ==
    /\ trace_pc = "frame"
    /\ DOMAIN states # {}
    /\ Len(states.before) < states.count

\* The entries a pop returns on underflow: the ones that were on the stack,
\* topmost first, then Frame.top for each one that was missing; the stack is
\* left empty.
TopForEachMissing ==
    /\ Len(states.entries) = states.count
    /\ \A i \in 1..states.count :
          states.entries[i] = IF i <= Len(states.before)
                              THEN states.before[Len(states.before) + 1 - i]
                              ELSE Top
    /\ states.after = <<>>

\* C31: a pop on a stack holding fewer entries than asked for does not
\* raise; it returns the entries held and Frame.top for each missing one,
\* leaves the stack empty and makes one stack-underflow report, which gives
\* the number of entries that were missing.
C31_UnderflowReportedOnceWithTheNumberMissing ==
    Underflowed =>
        /\ TopForEachMissing
        /\ states.reports = << Len(states.before) - states.count >>

\* C31 as stated: one stack-underflow report for each missing entry.
C31_UnderflowReportedForEachMissingEntry ==
    Underflowed =>
        /\ TopForEachMissing
        /\ Len(states.reports) = states.count - Len(states.before)

\* Two entries were asked of a stack holding one.
C31_Witness ==
    /\ Underflowed
    /\ states.count = 2
    /\ Len(states.before) = 1
    /\ states.entries[2] = Top
    /\ Error("STACK_UNDERFLOW", "") \in errors

\* Two entries were asked of an empty stack: one report was made.
C31_TwoMissingOneReport ==
    /\ Underflowed
    /\ states.count = 2
    /\ states.before = <<>>
    /\ states.reports = << -2 >>

\* Every two-slot local has Frame.top in the local after it.
WideLocalsHaveTop(locals) ==
    \A i \in DOMAIN locals :
        InternalSize(locals[i].type) > 1 =>
            (i + 1 \in DOMAIN locals /\ locals[i + 1] = Top)

\* max_locals is above every index the locals hold.
MaxLocalsAboveEveryIndex(f) == \A i \in DOMAIN f.locals : i < f.max_locals

\* C32: after any calls of set on a frame, a two-slot value held at index i
\* has the top sentinel at index i+1, and max_locals is greater than every
\* index the locals hold.
C32_WideLocalsHaveTopAndMaxLocalsIsAbove ==
    trace_pc = "locals" =>
        /\ WideLocalsHaveTop(TheFrame.locals)
        /\ MaxLocalsAboveEveryIndex(TheFrame)

\* What holds of max_locals: it is above every index held.
C32_MaxLocalsIsAbove == trace_pc = "locals" => MaxLocalsAboveEveryIndex(TheFrame)

\* A long was set at index 0 and an int at index 1 after it: the long is
\* left with an int in its second slot.
C32_SecondSlotOverwritten ==
    /\ trace_pc = "locals"
    /\ DOMAIN TheFrame.locals = {0, 1}
    /\ TheFrame.locals[0].type = "long"
    /\ TheFrame.locals[1].type = "int"

\* A long set at index 0 over a long at index 1: the old long's first slot
\* became the sentinel of the new one.
C32_WideSetBelowAWide ==
    /\ trace_pc = "locals"
    /\ DOMAIN TheFrame.locals = {0, 1, 2}
    /\ TheFrame.locals[0].type = "long"
    /\ TheFrame.locals[1] = Top
    /\ TheFrame.locals[2] = Top

\* The last call on the frame was get.
GetCalled ==
    /\ trace_pc = "locals"
    /\ DOMAIN states # {}
    /\ states.op = "get"

\* What get does for a local the frame does not hold: it reports
\* UNKNOWN_LOCAL, returns Frame.top and leaves the locals without the index.
UnknownLocalReported ==
    /\ states.entry = Top
    /\ Error("UNKNOWN_LOCAL", "") \in errors
    /\ states.index \notin DOMAIN TheFrame.locals

\* C33: every get(index) adds a read access for the index to the frame's
\* access log, also when the frame holds no such local; in that case it
\* reports an unknown local, returns the top entry and does not add the
\* index to the locals.
C33_EveryGetRecordsARead ==
    GetCalled =>
        /\ states.logged = <<TRUE, states.index>>
        /\ ~states.known => UnknownLocalReported

\* What holds: a get of a local the frame holds is recorded, a get of an
\* unknown local is reported and answered with Frame.top.
C33_KnownGetRecordsARead ==
    GetCalled =>
        /\ states.known => states.logged = <<TRUE, states.index>>
        /\ ~states.known => UnknownLocalReported

\* A get of a local the frame does not hold added nothing to the access log.
C33_UnknownGetNotRecorded ==
    /\ GetCalled
    /\ ~states.known
    /\ states.logged = <<>>
    /\ UnknownLocalReported

\* The jumps of the code left unbound: no block starts at their target.
UnboundJumps ==
    { o \in DOMAIN code.instructions :
        /\ code.instructions[o].op \in {"goto", "goto_w", "ifeq", "jsr"}
        /\ code.instructions[o].target \notin DOMAIN starting }

\* The raw jump at offset o is the last instruction of its block, and the
\* block has a fallthrough edge to the block with the next label if the
\* graph has one.
KeptWithFallthrough(o) ==
    /\ owner[o].label \in DOMAIN blocks
    /\ instructions[owner[o]] # <<>>
    /\ instructions[owner[o]][Len(instructions[owner[o]])] = code.instructions[o].op
    /\ owner[o].label + 1 \in DOMAIN blocks =>
          \E e \in forward_edges[owner[o]] :
              e.cls = "FallthroughEdge" /\ e.to = blocks[owner[o].label + 1]

\* The last block the loop made is empty and has no out edges.
TrailingEmpty ==
    /\ instructions[cur_block] = <<>>
    /\ cur_block \in DOMAIN forward_edges => forward_edges[cur_block] = {}

\* C34: in the graph disassemble() returns, every jump left unbound is the
\* last instruction of its block, which has a fallthrough edge to the block
\* with the next label if there is one, and a trailing empty block without
\* out edges is no part of the graph: it is no block of it and no edge of it
\* leads there.
C34_UnboundKeptAndTrailingBlockGone ==
    disasm_pc = "done" =>
        /\ \A o \in UnboundJumps : KeptWithFallthrough(o)
        /\ TrailingEmpty =>
              /\ cur_block.label \notin DOMAIN blocks
              /\ \A b \in DOMAIN forward_edges : \A e \in forward_edges[b] : e.to # cur_block

\* What holds: the unbound jumps are kept with their fallthrough edges, and
\* the trailing empty block is taken out of the blocks.
C34_UnboundKeptAndTrailingBlockUnlisted ==
    disasm_pc = "done" =>
        /\ \A o \in UnboundJumps : KeptWithFallthrough(o)
        /\ TrailingEmpty => cur_block.label \notin DOMAIN blocks

\* The code is one goto past its end: the entry block keeps the goto and a
\* fallthrough edge to block 1, which is no block of the graph.
C34_FallthroughToTheDroppedBlock ==
    /\ disasm_pc = "done"
    /\ DOMAIN code.instructions = {0}
    /\ 0 \in UnboundJumps
    /\ instructions[EntryBlock] = <<"goto">>
    /\ 1 \notin DOMAIN blocks
    /\ \E e \in forward_edges[EntryBlock] : e.cls = "FallthroughEdge" /\ e.to = Block1

\* The switch of the code, the block it ended and the switch edges of that
\* block.
TheSwitch == code.instructions[1]

SwitchEdges == { e \in forward_edges[owner[1]] : e.cls = "SwitchEdge" }

\* One switch edge for the default, with value None, and one for every case,
\* with the case's index or key, each to the block that starts at the
\* target.
EdgePerCase ==
    /\ Cardinality(SwitchEdges) = Cardinality(DOMAIN TheSwitch.offsets) + 1
    /\ \E e \in SwitchEdges :
          /\ e.value = NoneValue
          /\ TheSwitch.target \in DOMAIN starting
          /\ e.to = starting[TheSwitch.target]
    /\ \A k \in DOMAIN TheSwitch.offsets : \E e \in SwitchEdges :
          /\ e.value = k
          /\ TheSwitch.offsets[k] \in DOMAIN starting
          /\ e.to = starting[TheSwitch.offsets[k]]

\* The code was assembled again: its switch instruction has a default and
\* an offset for every case, each the start of the edge's target block less
\* the offset of the instruction.
OffsetsRestored ==
    \E w \in DOMAIN asm_code.instructions :
        /\ DOMAIN asm_code.instructions = {w}
        /\ asm_code.instructions[w].op = TheSwitch.op
        /\ DOMAIN asm_code.instructions[w].offsets = DOMAIN TheSwitch.offsets
        /\ \A e \in SwitchEdges :
              /\ e.to \in DOMAIN asm_offsets
              /\ Len(asm_offsets[e.to]) = 1
              /\ IF e.value = NoneValue
                 THEN asm_code.instructions[w].default = << asm_offsets[e.to][1][1] - w >>
                 ELSE asm_code.instructions[w].offsets[e.value] = asm_offsets[e.to][1][1] - w

\* Every target of the switch is the offset of an instruction.
TargetsHaveInstructions ==
    /\ TheSwitch.target \in DOMAIN code.instructions
    /\ \A k \in DOMAIN TheSwitch.offsets : TheSwitch.offsets[k] \in DOMAIN code.instructions

C35_UnboundCase ==
    /\ disasm_pc = "done"
    /\ IsSwitch(TheSwitch.op)
    /\ Cardinality(SwitchEdges) < Cardinality(DOMAIN TheSwitch.offsets) + 1
    /\ "tableswitch" \in { instructions[owner[1]][i] : i \in DOMAIN instructions[owner[1]] }

\* The written copies of the blocks, <<block, start, end>>: a block marked
\* inline is written once for every edge it is inlined at.
Copies ==
    UNION { { <<b, asm_offsets[b][i][1], asm_offsets[b][i][2]>> : i \in DOMAIN asm_offsets[b] }
            : b \in DOMAIN asm_offsets }

\* The fallthrough edges of the graph between ordinary blocks.
OrdinaryFallthroughs ==
    { e \in UNION { forward_edges[b] : b \in DOMAIN forward_edges } :
        /\ e.cls = "FallthroughEdge"
        /\ ~BlockEq(e.to, ReturnBlock) /\ ~BlockEq(e.to, RethrowBlock) }

\* The code after a copy of e.from that ends at `end` goes on in e.to: a
\* goto or goto_w written for the block leads there, or a copy of e.to
\* starts there.
Honoured(e, end) ==
    \/ /\ end \in DOMAIN asm_jumps
       /\ asm_jumps[end].from = e.from
       /\ asm_jumps[end].to = e.to
       /\ asm_jumps[end].insn \in {"goto", "goto_w"}
       /\ e.to \in DOMAIN asm_offsets
    \/ /\ \E c \in Copies : c[1] = e.to /\ c[2] = end
       /\ end \in DOMAIN asm_jumps => asm_jumps[end].from = e.to

\* C36: in the assembled code every fallthrough edge b -> t between ordinary
\* blocks is honoured: after every written copy of b comes a copy of t, or a
\* goto or goto_w of b to t.
C36_FallthroughsHonoured ==
    (asm_pc = "done" /\ errors = {}) =>
        \A e \in OrdinaryFallthroughs : \A c \in Copies :
            c[1] = e.from => Honoured(e, c[3])

\* assemble() stopped in the block it was writing, before a conditional
\* jump to a block more than 32768 bytes back.
ConditionalOutOfRange ==
    /\ asm_pc = "raised"
    /\ asm_order # <<>>
    /\ LET jump_edge == asm_last[asm_order[Len(asm_order)]].jump IN
        /\ jump_edge # NoEdge
        /\ IsConditional(jump_edge.insn)
        /\ jump_edge.to \in DOMAIN asm_offsets
        /\ NearestStart(AsmLocals, jump_edge.to) - asm_offset < -(Narrow + 1)

GraphAsFound ==
    \E in \in WideInputs : instructions = in.insns /\ Graph = TraceGraph(in.edges)

C38_GraphAsFoundWhenCodeReturned ==
    asm_pc = "done" => GraphAsFound

\* The block is registered under its label.
IsBlockOfGraph(b) == b.label \in DOMAIN blocks /\ blocks[b.label] = b

\* C39: after any sequence of add, remove, connect and disconnect the maps
\* of the out edges and of the in edges agree: an edge with a known target
\* is among the out edges of its source exactly if it is among the in edges
\* of its target, both ends of every edge held are blocks of the graph, and
\* every block of the graph is a key of both maps.
C39_EdgeMapsAgree ==
    /\ \A e \in ConnectedEdges(Graph) :
          e.to # NoneBlock => e.to \in DOMAIN backward_edges /\ e \in backward_edges[e.to]
    /\ \A b \in DOMAIN backward_edges : \A e \in backward_edges[b] :
          e.from \in DOMAIN forward_edges /\ e \in forward_edges[e.from]
    /\ \A e \in HeldEdges(Graph) :
          IsBlockOfGraph(e.from) /\ (e.to # NoneBlock => IsBlockOfGraph(e.to))
    /\ \A l \in DOMAIN blocks :
          blocks[l] \in DOMAIN forward_edges /\ blocks[l] \in DOMAIN backward_edges

\* The pool is the one built by add and item assignment, before or while it
\* is written.
PoolAsBuilt == read_pc \in {"idle", "write", "written"}

\* write() was left by an exception.
WriteRaised == read_pc = "raised" /\ written = NotWritten

\* C40: after any sequence of add and item assignments the next free index
\* of the pool is above every occupied index, by two at least for a Long or
\* Double; write() raises on no such pool, and the count it packs is above
\* the index of every constant of the pool, those added while it ran
\* included.
C40_NextIndexAboveAndWriteSucceeds ==
    /\ PoolAsBuilt =>
          \A i \in DOMAIN forward_entries :
              pool_index > i + (IF Wide(forward_entries[i]) THEN 1 ELSE 0)
    /\ ~WriteRaised
    /\ read_pc = "written" =>
          \A i \in DOMAIN forward_entries :
              written.count > i + (IF Wide(forward_entries[i]) THEN 1 ELSE 0)
====
